---- MODULE Spec2Model ----
(***************************************************************************)
(* Model of the bid pipeline of monilsavaliya/Techathon.                   *)
(*                                                                         *)
(*  - Spec: the central RFP store (central_rfp_database.json) and every    *)
(*    writer of it: MainAgent.process_rfp and its background pipeline      *)
(*    thread, the dashboard routes of app.py (re-run tech / pricing /      *)
(*    priority, archive, delete, settings) and the priority ranker.  Every *)
(*    read of the file and every write of the file is one atomic step; a   *)
(*    writer keeps the list it loaded in its local `snap` between the two. *)
(*  - SpecPricing: RealPricingAgent.process_pricing and the engine behind  *)
(*    it as pure functions over bounded reference data and RFP records.    *)
(*  - SpecCalls: one call of one function of RealTechAgent's product       *)
(*    matching, of the costing engine or of the priority ranker's scoring, *)
(*    on arguments from bounded sets.                                      *)
(*  - SpecKeys: RealSalesAgent.try_generate_with_models and its rotation   *)
(*    of API keys, one model call per step.                                *)
(*                                                                         *)
(* Money is in whole rupees (fractions dropped), margins in basis points    *)
(* (0.0001), scores and rates in percent.                                  *)
(***************************************************************************)
EXTENDS Integers, Sequences, FiniteSets, Bags, TLC

VARIABLES
    db,        \* the list of RFP records stored in central_rfp_database.json
    procs,     \* the bag of request handlers and pipeline threads in flight
    clock,     \* int(datetime.now().timestamp()), in seconds since the first upload
    uploads,   \* number of process_rfp calls so far
    requests,  \* number of dashboard requests (other than uploads) so far
    settings,  \* priority_config.max_urgency_days stored in settings.json
    logistics_empty, \* whether logistic_master.json holds no zone record
    returned_dirty,  \* history: a thread returned without re-ranking its change
    pin,       \* SpecPricing, SpecCalls: the input (record and reference data) under test
               \* SpecKeys: the number of API keys of the agent
    pout       \* SpecPricing, SpecCalls: what the function under test returned for pin
               \* SpecKeys: the loop counters, key index and keys tried of the call

storeVars == <<db, procs, clock, uploads, requests, settings, logistics_empty,
              returned_dirty>>
pureVars == <<pin, pout>>
vars == <<db, procs, clock, uploads, requests, settings, logistics_empty,
         returned_dirty, pin, pout>>

----------------------------------------------------------------------------
\* Bounds of the model

MaxUploads == 2
MaxThreads == 2
MaxTime == 1
MaxRequests == 1

\* Uploaded documents, by what the extraction stage returns for them.
\*   docA     : a complete RFP (numeric quantity, known client, deadline)
\*   docNoQty : line item without quantity -> "quantity": "NOT SPECIFIED"
\*   docBad   : no text can be extracted: the sales API answers with an error
Docs == {"docA", "docNoQty", "docBad"}

\* The call of the sales API raises (status code other than 200).
SalesRaises(doc) == doc = "docBad"

Max(S) == CHOOSE x \in S : \A y \in S : y <= x
Min(S) == CHOOSE x \in S : \A y \in S : x <= y

----------------------------------------------------------------------------
\* RFP records

\* rank 0 stands for a sales_agent_2_output without a "rank" key
\* ({"priority_score": "Pending"}), rank -1 for the archived sentinel.
NewRecord(rfp_id) ==
    [id |-> rfp_id, arch |-> FALSE, status |-> "Processing",
     sales_stage |-> "In Progress...", tech_stage |-> "Pending",
     pricing_stage |-> "Pending", final_stage |-> "Pending",
     sales_out |-> "Empty", tech_out |-> "Empty", pricing_out |-> "Empty",
     rank |-> 0]

NoStage == [sales |-> "", tech |-> "", pricing |-> "", final |-> ""]

HasId(data, rfp_id) == \E i \in 1..Len(data) : data[i].id = rfp_id

FirstIndex(data, rfp_id) ==
    Min({i \in 1..Len(data) : data[i].id = rfp_id})

\* get_rfp_record: the first record with that id, or {} (here: a new record
\* without id, whose outputs are all empty).
get_rfp_record(data, rfp_id) ==
    IF HasId(data, rfp_id) THEN data[FirstIndex(data, rfp_id)]
    ELSE NewRecord(-1)

UpdateItem(item, key, value, status, upd) ==
    LET i1 == [item EXCEPT ![key] = value]
        i2 == IF status # "" THEN [i1 EXCEPT !.status = status] ELSE i1
    IN [i2 EXCEPT
          !.sales_stage = IF upd.sales # "" THEN upd.sales ELSE @,
          !.tech_stage = IF upd.tech # "" THEN upd.tech ELSE @,
          !.pricing_stage = IF upd.pricing # "" THEN upd.pricing ELSE @,
          !.final_stage = IF upd.final # "" THEN upd.final ELSE @]

\* The list save_to_db_record writes back, given the list it loaded.
save_to_db_record(data, rfp_id, key, value, status, upd) ==
    IF HasId(data, rfp_id)
    THEN [data EXCEPT ![FirstIndex(data, rfp_id)] =
              UpdateItem(@, key, value, status, upd)]
    ELSE data

----------------------------------------------------------------------------
\* The stages as the store sees them

\* process_rfp_data raises on a line item whose quantity is the extraction
\* marker "NOT SPECIFIED" (float() in calculate_testing_costs).
TechRaises(sales_out) == sales_out = "docNoQty"

\* tech_agent_output for a stored sales_agent_output.  "NoItems" is a
\* completed result with no matched line items (sales output without items).
TechOutput(sales_out) ==
    IF TechRaises(sales_out) THEN "Err"
    ELSE IF sales_out \in Docs THEN sales_out
    ELSE "NoItems"

\* process_pricing raises when the logistics table it loaded is empty.
PricingOutput(table_empty) == IF table_empty THEN "Err" ELSE "Ok"

----------------------------------------------------------------------------
\* Priority ranker

\* average match score of the technical match, in percent
TechFit(d) == IF d = "docA" THEN 80 ELSE 0
\* get_product_fit_score of the extracted line items, in percent
SalesFit(d) == IF d = "docA" THEN 70 ELSE 40
\* get_relationship_score of the summary's client, in percent
Relationship(d) == IF d = "docA" THEN 90 ELSE 50
\* days left to the submission deadline; -1: no deadline extracted
DaysLeft(d) == IF d = "docA" THEN 45 ELSE -1

\* get_urgency_score without the test for an expired deadline
UrgencyNoExpiry(days_left, max_urgency_days) ==
    100 - (100 * Max({0, Min({days_left, max_urgency_days})}))
              \div max_urgency_days

\* get_urgency_score once the deadline is parsed, in percent
get_urgency_score(days_left, max_urgency_days) ==
    IF days_left < 0 THEN 0
    ELSE 100 - (100 * Max({0, Min({days_left, max_urgency_days})}))
                   \div max_urgency_days

\* total_score * 40000: p_win * (1 + 0.5 * urgency)
TotalScore(rfp, max_urgency_days) ==
    LET p_score == IF rfp.tech_out \in Docs THEN TechFit(rfp.tech_out)
                   ELSE IF rfp.sales_out \in Docs THEN SalesFit(rfp.sales_out)
                   ELSE 0
        r_score == IF rfp.sales_out \in Docs THEN Relationship(rfp.sales_out)
                   ELSE 50
        u_score == IF rfp.sales_out \in Docs
                   THEN get_urgency_score(DaysLeft(rfp.sales_out), max_urgency_days)
                   ELSE 0
    IN (p_score + r_score) * (200 + u_score)

\* position (1-based) of record i in scored_rfps after the stable sort
SortedPos(rfp_list, i, mud) ==
    1 + Cardinality({j \in 1..Len(rfp_list) :
          /\ ~rfp_list[j].arch
          /\ \/ TotalScore(rfp_list[j], mud) > TotalScore(rfp_list[i], mud)
             \/ /\ TotalScore(rfp_list[j], mud) = TotalScore(rfp_list[i], mud)
                /\ j < i})

\* rank_map[rid]: the dict comprehension keeps the last entry of each id
RankMap(rfp_list, rid, mud) ==
    Max({SortedPos(rfp_list, j, mud) :
           j \in {k \in 1..Len(rfp_list) :
                    ~rfp_list[k].arch /\ rfp_list[k].id = rid}})

InRankMap(rfp_list, rid) ==
    \E k \in 1..Len(rfp_list) : ~rfp_list[k].arch /\ rfp_list[k].id = rid

\* The list recalculate_all_priorities writes back, given the list it loaded.
recalculate_all_priorities(rfp_list, mud) ==
    IF rfp_list = <<>> THEN <<>> ELSE
    [i \in 1..Len(rfp_list) |->
        IF InRankMap(rfp_list, rfp_list[i].id)
        THEN [rfp_list[i] EXCEPT !.rank = RankMap(rfp_list, rfp_list[i].id, mud)]
        ELSE [rfp_list[i] EXCEPT !.rank = -1]]

----------------------------------------------------------------------------
\* Pricing engine: CONFIG (pricing_agent.py)

ANNUAL_COST_OF_CAPITAL == 12
TARGET_NET_MARGIN == 2200
MIN_SURVIVAL_MARGIN == 400
HEDGING_BUFFER_PCT == 2
FACTORY_OVERHEAD_RATE == 12
OVERLOAD_PREMIUM == 500
IDLE_DISCOUNT == 300
FUEL_SURCHARGE_PCT == 10
INSURANCE_PER_MILLE == 5
HANDLING_PER_TON == 500
STEEL_DRUM_COST == 12000
WOODEN_DRUM_COST == 4500
HV_BASE_COST == 15000
LV_BASE_COST == 5000

\* Bounds of the pricing inputs
MaxItems == 1
MaxRivals == 2

SeqsUpTo(S, n) == UNION {[1..k -> S] : k \in 0..n}

Range(f) == {f[x] : x \in DOMAIN f}

\* (a * b) \div c for a, b >= 0 and c > 0, without the intermediate product
MulDiv(a, b, c) == (a \div c) * b + ((a % c) * b) \div c

----------------------------------------------------------------------------
\* Reference tables the engine is run against.  Rates are integers; a
\* multiplier such as current_market_factor is held in percent, the quantity
\* of a BOM line (units of material per metre of cable) in hundredths.

\* product_master_enriched.json: a low-tension cable with a bill of materials
\* (one material of which is not in the material master), a 33 kV cable
\* without one and a low-tension cable of 0.5 units of aluminium per metre.
PRODUCTS ==
    << [product_id |-> "LT-001",
        bill_of_materials |-> << [material_id |-> "MAT-CU", quantity |-> 200],
                                 [material_id |-> "MAT-XX", quantity |-> 100] >>,
        base_manufacturing_cost |-> 1000, approx_weight_kg_km |-> 2000],
       [product_id |-> "HT-33KV-001",
        bill_of_materials |-> <<>>,
        base_manufacturing_cost |-> 3000, approx_weight_kg_km |-> 5000],
       [product_id |-> "LT-AL-002",
        bill_of_materials |-> << [material_id |-> "MAT-AL", quantity |-> 50] >>,
        base_manufacturing_cost |-> 800, approx_weight_kg_km |-> 1500] >>

\* material_master.json
MATERIALS ==
    << [material_id |-> "MAT-CU", base_cost_per_unit |-> 700,
        current_market_factor |-> 110, volatility_risk_level |-> "High"],
       [material_id |-> "MAT-AL", base_cost_per_unit |-> 100,
        current_market_factor |-> 100, volatility_risk_level |-> "Low"] >>

\* client_master.json
CLIENTS ==
    << [client_name |-> "NTPC", payment_terms |-> "90 Days", loyalty_status |-> "Gold"],
       [client_name |-> "BHEL", payment_terms |-> "60 Days", loyalty_status |-> "Silver"] >>

\* competitors.json; win_rate_against_us in percent; intel = FALSE: the record
\* has no pricing_intelligence section.
COMPETITORS ==
    << [competitor_id |-> "AGG", intel |-> TRUE, aggression_score |-> 9,
        win_rate_against_us |-> 50, tier |-> "Tier-1"],
       [competitor_id |-> "WIN", intel |-> TRUE, aggression_score |-> 5,
        win_rate_against_us |-> 70, tier |-> "Tier-2"],
       [competitor_id |-> "T3", intel |-> TRUE, aggression_score |-> 3,
        win_rate_against_us |-> 30, tier |-> "Tier-3"],
       [competitor_id |-> "MILD", intel |-> TRUE, aggression_score |-> 5,
        win_rate_against_us |-> 40, tier |-> "Tier-1"],
       [competitor_id |-> "BROKEN", intel |-> FALSE, aggression_score |-> 0,
        win_rate_against_us |-> 0, tier |-> ""] >>

\* Codes the tech stage may hand over; "NOBODY" matches no competitor record.
RivalCodes == {"AGG", "WIN", "T3", "MILD", "BROKEN", "NOBODY"}

\* test_master.json
TESTS ==
    << [test_id |-> "TEST-RT-001", test_category |-> "Routine Test",
        base_test_cost |-> 1000, mandatory_for |-> {"All Cables"}],
       [test_id |-> "TEST-TT-002", test_category |-> "Type Test",
        base_test_cost |-> 20000, mandatory_for |-> {"HT Cables"}] >>

\* logistic_master.json, three versions: with the default zone Z-01, without
\* it, and empty.  risk_factor_percent is a fraction of the margin (in bp),
\* surcharge_multiplier is in percent.
LogisticsTables ==
    { << [zone_code |-> "Z-01", zone_type |-> "Plains_Highway",
          transport_rate_per_ton_km |-> 5, surcharge_multiplier |-> 100,
          risk_factor_percent |-> 0],
         [zone_code |-> "Z-04", zone_type |-> "Hilly",
          transport_rate_per_ton_km |-> 8, surcharge_multiplier |-> 150,
          risk_factor_percent |-> 200] >>,
      << [zone_code |-> "Z-07", zone_type |-> "Coastal",
          transport_rate_per_ton_km |-> 6, surcharge_multiplier |-> 120,
          risk_factor_percent |-> 100] >>,
      <<>> }

\* factory_production_schedule.json: batches by production line
FactorySchedules ==
    { <<>>,
      << [production_line_id |-> "LINE-LT-1", category |-> "LT", utilization_percent |-> 95],
         [production_line_id |-> "LINE-HV-1", category |-> "HV", utilization_percent |-> 20] >>,
      << [production_line_id |-> "LINE-LT-1", category |-> "LT", utilization_percent |-> 20],
         [production_line_id |-> "LINE-LT-2", category |-> "LT", utilization_percent |-> 30],
         [production_line_id |-> "LINE-HV-1", category |-> "HV", utilization_percent |-> 95] >> }

\* The quantity of a line item as JSON holds it.
Quantities ==
    { [t |-> "Absent", n |-> 0], [t |-> "None", n |-> 0], [t |-> "Num", n |-> 0],
      [t |-> "Num", n |-> 1200], [t |-> "Str", n |-> 0] }

\* matched_sku_id of a line item; "NO_MATCH" is in no master.
SkuIds == {"LT-001", "HT-33KV-001", "NO_MATCH"}

\* "33KV" in str(pid).upper()
Is33KV(pid) == pid = "HT-33KV-001"

\* Keywords a delivery location may contain.
Locations == { {}, {"remote", "port"} }

\* settings.json as the engine reads it: absent, or the pricing_config the
\* settings form stores by default (base_margin_percent / 100 is in bp).
PricingSettings ==
    { [present |-> FALSE, base_margin_percent |-> 0, packaging_cost_per_drum |-> 0],
      [present |-> TRUE, base_margin_percent |-> 18, packaging_cost_per_drum |-> 12000] }

\* matched_line_items of the technical output
ItemLists == SeqsUpTo([matched_sku_id : SkuIds, quantity : Quantities], MaxItems)

\* required_test_codes of the technical output ("TEST-ZZ-999" is in no master)
TestCodeLists == {<<>>, <<"TEST-RT-001", "TEST-ZZ-999">>, <<"TEST-ZZ-999">>}

\* competitor_codes of the technical output
RivalLists == SeqsUpTo(RivalCodes, MaxRivals)

ClientNames == {"NTPC", "BHEL", "Unknown"}

----------------------------------------------------------------------------
\* PricingEngine

\* next((x for x in table if ...), None): the first of the matching indices
\* of the table, 0 for None
FirstMatch(matches) == IF matches = {} THEN 0 ELSE Min(matches)

\* float(item.get('quantity') or 0): None, 0 and an absent key give 0.0, a
\* number gives itself, a non-numeric string raises ValueError.
QuantityOrZero(q) ==
    IF q.t = "Str" THEN [ok |-> FALSE, v |-> 0] ELSE [ok |-> TRUE, v |-> q.n]

\* A BOM line priced at the base rate, without the market factor.
BomLineNoMarketFactor(item, total_qty_mtr) ==
    LET IsMat(m) == m.material_id = item.material_id
        Line(mat, line_cost) ==
            [cost |-> line_cost,
             risk |-> IF mat.volatility_risk_level = "High"
                      THEN (line_cost * HEDGING_BUFFER_PCT) \div 100 ELSE 0]
        Lookup(k) ==
            IF k = 0
            THEN [cost |-> MulDiv(item.quantity * 500, total_qty_mtr, 100),
                  risk |-> 0]
            ELSE Line(MATERIALS[k],
                      MulDiv(item.quantity * MATERIALS[k].base_cost_per_unit,
                             total_qty_mtr, 100))
    IN Lookup(FirstMatch({i \in 1..Len(MATERIALS) : IsMat(MATERIALS[i])}))

\* Cost of one BOM line for total_qty_mtr metres: [cost, risk]
BomLine(item, total_qty_mtr) ==
    LET IsMat(m) == m.material_id = item.material_id
        Line(mat, line_cost) ==
            [cost |-> line_cost,
             risk |-> IF mat.volatility_risk_level = "High"
                      THEN (line_cost * HEDGING_BUFFER_PCT) \div 100 ELSE 0]
        Lookup(k) ==
            IF k = 0
            THEN [cost |-> MulDiv(item.quantity * 500, total_qty_mtr, 100),
                  risk |-> 0]
            ELSE Line(MATERIALS[k],
                      MulDiv(item.quantity * MATERIALS[k].base_cost_per_unit
                               * MATERIALS[k].current_market_factor,
                             total_qty_mtr, 10000))
    IN Lookup(FirstMatch({i \in 1..Len(MATERIALS) : IsMat(MATERIALS[i])}))

\* [mat_cost_total, risk_buffer_total] of a bill of materials
RECURSIVE BomSum(_, _)
BomSum(bom, total_qty_mtr) ==
    LET Add(line, rest) == [cost |-> line.cost + rest.cost,
                            risk |-> line.risk + rest.risk]
    IN IF bom = <<>> THEN [cost |-> 0, risk |-> 0]
       ELSE Add(BomLine(Head(bom), total_qty_mtr), BomSum(Tail(bom), total_qty_mtr))

calculate_micro_bom_cost(product_id, total_qty_mtr) ==
    LET IsProd(pr) == pr.product_id = product_id
        Total(prod, mat_cost_total, risk_buffer_total, mfg_overhead) ==
            [total_mfg_cost |-> mat_cost_total + mfg_overhead + risk_buffer_total,
             total_weight_kg |-> (prod.approx_weight_kg_km * total_qty_mtr) \div 1000,
             risk_buffer_total |-> risk_buffer_total,
             mfg_overhead |-> mfg_overhead, estimate |-> FALSE]
        WithOverhead(prod, sum) ==
            Total(prod, sum.cost, sum.risk, (sum.cost * FACTORY_OVERHEAD_RATE) \div 100)
        Explode(prod) ==
            WithOverhead(prod,
                IF prod.bill_of_materials # <<>>
                THEN BomSum(prod.bill_of_materials, total_qty_mtr)
                ELSE [cost |-> prod.base_manufacturing_cost * total_qty_mtr,
                      risk |-> 0])
        Lookup(k) ==
            IF k = 0
            THEN [total_mfg_cost |-> total_qty_mtr * 1500,
                  total_weight_kg |-> (total_qty_mtr * 5) \div 2,
                  risk_buffer_total |-> 0, mfg_overhead |-> 0, estimate |-> TRUE]
            ELSE Explode(PRODUCTS[k])
    IN Lookup(FirstMatch({i \in 1..Len(PRODUCTS) : IsProd(PRODUCTS[i])}))

RECURSIVE SumUtil(_)
SumUtil(batches) ==
    IF batches = <<>> THEN 0
    ELSE Head(batches).utilization_percent + SumUtil(Tail(batches))

\* The margin adjustment of the factory load (bp)
analyze_factory_load(product_id, factory) ==
    LET Relevant(b) == b.category = (IF Is33KV(product_id) THEN "HV" ELSE "LT")
        Load(n, total) ==
            IF n = 0 THEN 0
            ELSE IF total > 90 * n THEN OVERLOAD_PREMIUM
            ELSE IF total < 30 * n THEN -IDLE_DISCOUNT
            ELSE 0
        Avg(relevant_batches) == Load(Len(relevant_batches), SumUtil(relevant_batches))
    IN Avg(SelectSeq(factory, Relevant))

\* The keyword table of determine_logistics_zone, in dict order
ZoneKeywords ==
    << <<"hilly", "Hilly">>, <<"mountain", "Hilly">>, <<"remote", "Hilly">>,
       <<"coastal", "Coastal">>, <<"port", "Coastal">>, <<"sea", "Coastal">>,
       <<"desert", "Desert">>, <<"rajasthan", "Desert">>, <<"kutch", "Desert">>,
       <<"island", "Island">>, <<"andaman", "Island">>,
       <<"urban", "Urban">>, <<"city", "Urban">>, <<"metro", "Urban">> >>

\* Index into the logistics table of the zone of a location, 0 for None.
determine_logistics_zone(location_name, table) ==
    LET InLoc(kv) == kv[1] \in location_name
        IsDefault(z) == z.zone_code = "Z-01"
        Best(best_zone) ==
            IF best_zone # 0 THEN best_zone
            ELSE FirstMatch({i \in 1..Len(table) : IsDefault(table[i])})
        Detect(detected_type) ==
            LET OfType(z) == z.zone_type = detected_type
            IN Best(FirstMatch({i \in 1..Len(table) : OfType(table[i])}))
        Keyword(k) ==
            Detect(IF k = 0 THEN "Plains_Highway" ELSE ZoneKeywords[k][2])
    IN Keyword(FirstMatch({i \in 1..Len(ZoneKeywords) : InLoc(ZoneKeywords[i])}))

\* raised: self.db["LOGISTICS"][0] on an empty table (IndexError)
calculate_logistics(weight_kg, distance_km, location_name, table) ==
    LET Total(zone, kg, total_freight) ==
            [raised |-> FALSE,
             final_logistics |->
                 total_freight
                   + (total_freight * FUEL_SURCHARGE_PCT) \div 100
                   + (total_freight * 100 * INSURANCE_PER_MILLE) \div 1000
                   + (kg * HANDLING_PER_TON) \div 1000,
             risk_pct |-> zone.risk_factor_percent,
             zone_code |-> zone.zone_code]
        Freight(zone, kg) ==
            Total(zone, kg,
                  (((kg * distance_km * zone.transport_rate_per_ton_km) \div 1000)
                     * zone.surcharge_multiplier) \div 100)
        Zone(z) ==
            IF z = 0 /\ table = <<>>
            THEN [raised |-> TRUE, final_logistics |-> 0, risk_pct |-> 0,
                  zone_code |-> ""]
            ELSE Freight(IF z = 0 THEN table[1] ELSE table[z],
                         IF weight_kg < 1000 THEN 1000 ELSE weight_kg)
    IN Zone(determine_logistics_zone(location_name, table))

analyze_financials(client_name, total_value) ==
    LET IsClient(c) == c.client_name = client_name
        Cost(credit_days, loyalty_disc) ==
            [interest_cost |-> MulDiv(total_value,
                                      ANNUAL_COST_OF_CAPITAL * credit_days, 100 * 365),
             credit_days |-> credit_days, loyalty_disc |-> loyalty_disc]
        Terms(client) ==
            Cost(IF client.payment_terms = "90 Days" THEN 90
                 ELSE IF client.payment_terms = "60 Days" THEN 60
                 ELSE IF client.payment_terms = "Advance" THEN 0
                 ELSE 30,
                 IF client.loyalty_status = "Silver" THEN -150
                 ELSE IF client.loyalty_status = "Gold" THEN -300
                 ELSE 0)
        Lookup(k) == IF k = 0 THEN Cost(30, 0) ELSE Terms(CLIENTS[k])
    IN Lookup(FirstMatch({i \in 1..Len(CLIENTS) : IsClient(CLIENTS[i])}))

\* The concession (bp) a competitor record forces; 0 when no rule applies.
RivalImpact(rival) ==
    IF rival.aggression_score >= 8 THEN 300
    ELSE IF rival.win_rate_against_us > 60 THEN 200
    ELSE IF rival.tier = "Tier-3" THEN 400
    ELSE 0

\* The concession of a competitor code: none for a code that matches no
\* record or a record whose intelligence section is missing.
CodeImpact(comp_input) ==
    LET IsRival(c) == c.competitor_id = comp_input
        Lookup(k) == IF k = 0 THEN 0
                     ELSE IF ~COMPETITORS[k].intel THEN 0
                     ELSE RivalImpact(COMPETITORS[k])
    IN Lookup(FirstMatch({i \in 1..Len(COMPETITORS) : IsRival(COMPETITORS[i])}))

\* Concessions that add up instead of the biggest one being kept.
KeepSum(max_impact, impact) == max_impact + impact

\* The biggest drop so far, given the next rival's impact
KeepBiggest(max_impact, impact) ==
    IF impact > max_impact THEN impact ELSE max_impact

\* The loop of solve_game_theory: [max_impact, count] with count = len(reasons)
RECURSIVE GameLoop(_, _)
GameLoop(competitor_codes, acc) ==
    LET Step(impact) ==
            IF impact > 0
            THEN [max_impact |-> KeepBiggest(acc.max_impact, impact),
                  count |-> acc.count + 1]
            ELSE acc
    IN IF competitor_codes = <<>> THEN acc
       ELSE GameLoop(Tail(competitor_codes), Step(CodeImpact(Head(competitor_codes))))

\* margin_adj in bp
solve_game_theory(competitor_codes) ==
    LET Adjust(r) == IF r.count > 1 THEN -(r.max_impact + (r.count - 1) * 50)
                     ELSE -r.max_impact
    IN Adjust(GameLoop(competitor_codes, [max_impact |-> 0, count |-> 0]))

----------------------------------------------------------------------------
\* RealPricingAgent.process_pricing

NoResult ==
    [op |-> "none", status |-> "", error |-> "",
     final_bid_value |-> 0, final_margin |-> 0, total_cost_base |-> 0,
     total_material_cost |-> 0, total_logistics_cost |-> 0,
     total_packaging_cost |-> 0, total_testing_cost |-> 0, finance_cost |-> 0,
     competitor_impact |-> 0, zone_risk |-> 0, floor_hit |-> FALSE,
     target_margin |-> 0, factory_adjustment |-> 0, loyalty_discount |-> 0,
     test_codes |-> {}]

\* Cost of one test code for an item of `drums` drums
TestCodeCost(t_code, drums) ==
    LET IsTest(t) == t.test_id = t_code
        Lookup(k) == IF k = 0 THEN 0
                     ELSE IF TESTS[k].test_category = "Routine Test"
                     THEN TESTS[k].base_test_cost * drums
                     ELSE TESTS[k].base_test_cost
    IN Lookup(FirstMatch({i \in 1..Len(TESTS) : IsTest(TESTS[i])}))

RECURSIVE TestCodesCost(_, _)
TestCodesCost(required_tests, drums) ==
    IF required_tests = <<>> THEN 0
    ELSE TestCodeCost(Head(required_tests), drums)
           + TestCodesCost(Tail(required_tests), drums)

\* One pass of the costing loop: [raised, mfg, wt, pkg, test]
ItemCost(item, required_tests, cfg) ==
    LET Cost(raised, pid, bom, drums) ==
            [raised |-> raised,
             mfg |-> bom.total_mfg_cost,
             wt |-> bom.total_weight_kg,
             pkg |-> drums *
                 (IF Is33KV(pid)
                  THEN (IF cfg.present THEN (cfg.packaging_cost_per_drum * 5) \div 2
                        ELSE STEEL_DRUM_COST)
                  ELSE (IF cfg.present THEN cfg.packaging_cost_per_drum
                        ELSE WOODEN_DRUM_COST)),
             test |-> IF required_tests # <<>>
                      THEN TestCodesCost(required_tests, drums)
                      ELSE IF Is33KV(pid) THEN HV_BASE_COST ELSE LV_BASE_COST]
        Qty(raised, qty) ==
            Cost(raised, item.matched_sku_id,
                 calculate_micro_bom_cost(item.matched_sku_id, qty),
                 (qty + 499) \div 500)
        Float(q) == Qty(~q.ok, IF q.v = 0 THEN 1000 ELSE q.v)
    IN Float(QuantityOrZero(item.quantity))

RECURSIVE CostItems(_, _, _)
CostItems(items, required_tests, cfg) ==
    LET Add(c, rest) ==
            [raised |-> c.raised \/ rest.raised,
             mfg |-> c.mfg + rest.mfg, wt |-> c.wt + rest.wt,
             pkg |-> c.pkg + rest.pkg, test |-> c.test + rest.test]
    IN IF items = <<>>
       THEN [raised |-> FALSE, mfg |-> 0, wt |-> 0, pkg |-> 0, test |-> 0]
       ELSE Add(ItemCost(Head(items), required_tests, cfg),
                CostItems(Tail(items), required_tests, cfg))

\* A margin that ignores the survival floor.
FinalMarginNoFloor(raw_margin) == raw_margin

\* The final margin (bp) for the sum of target margin and adjustments
FinalMargin(raw_margin) ==
    IF raw_margin < MIN_SURVIVAL_MARGIN THEN MIN_SURVIVAL_MARGIN ELSE raw_margin

\* A margin that leaves the factory adjustment out.
RawMarginNoFactory(target_margin, fact_adj_pct, loy_disc, comp_adj, log_risk_pct) ==
    target_margin + loy_disc + comp_adj + log_risk_pct

\* target_margin + fact_adj_pct + loy_disc + comp_adj + log_risk_pct
RawMargin(target_margin, fact_adj_pct, loy_disc, comp_adj, log_risk_pct) ==
    target_margin + fact_adj_pct + loy_disc + comp_adj + log_risk_pct

process_pricing(in) ==
    LET Result(cost, log, fin, adj, full_cost_base, final_margin) ==
            [NoResult EXCEPT
               !.op = "process_pricing", !.status = "Success",
               !.final_bid_value = full_cost_base
                                     + MulDiv(full_cost_base, final_margin, 10000),
               !.final_margin = final_margin,
               !.total_cost_base = full_cost_base,
               !.total_material_cost = cost.mfg,
               !.total_logistics_cost = log.final_logistics,
               !.total_packaging_cost = cost.pkg,
               !.total_testing_cost = cost.test,
               !.finance_cost = fin.interest_cost,
               !.competitor_impact = adj.comp_adj,
               !.zone_risk = log.risk_pct,
               !.target_margin = adj.target_margin,
               !.factory_adjustment = adj.fact_adj_pct,
               !.loyalty_discount = fin.loyalty_disc,
               !.floor_hit = (adj.raw_margin < MIN_SURVIVAL_MARGIN)]
        Margin(cost, log, base_cost, fin, adj) ==
            Result(cost, log, fin, adj,
                   base_cost + fin.interest_cost, FinalMargin(adj.raw_margin))
        Adjust(cost, log, base_cost, fin, target_margin, fact_adj_pct, comp_adj) ==
            Margin(cost, log, base_cost, fin,
                   [target_margin |-> target_margin, fact_adj_pct |-> fact_adj_pct,
                    comp_adj |-> comp_adj,
                    raw_margin |-> RawMargin(target_margin, fact_adj_pct,
                                             fin.loyalty_disc, comp_adj,
                                             log.risk_pct)])
        Strategy(cost, log, base_cost, fact_adj_pct, fin, comp_adj) ==
            Adjust(cost, log, base_cost, fin,
                   IF in.settings.present THEN in.settings.base_margin_percent
                   ELSE TARGET_NET_MARGIN,
                   fact_adj_pct, comp_adj)
        Financials(cost, log, base_cost) ==
            Strategy(cost, log, base_cost,
                     analyze_factory_load(IF in.items # <<>>
                                          THEN in.items[1].matched_sku_id
                                          ELSE "UNKNOWN", in.factory),
                     analyze_financials(in.client_name, base_cost),
                     solve_game_theory(in.competitor_codes))
        Logistics(cost, log) ==
            IF log.raised
            THEN [NoResult EXCEPT !.op = "process_pricing", !.status = "Raised",
                                  !.error = "IndexError"]
            ELSE Financials(cost, log,
                            cost.mfg + cost.pkg + cost.test + log.final_logistics)
        Costing(cost) ==
            IF cost.raised
            THEN [NoResult EXCEPT !.op = "process_pricing", !.status = "Raised",
                                  !.error = "ValueError"]
            ELSE Logistics(cost,
                           calculate_logistics(cost.wt, in.distance_from_factory_km,
                                               in.delivery_location, in.logistics))
    IN Costing(CostItems(in.items, in.required_test_codes, in.settings))

----------------------------------------------------------------------------
\* RealTechAgent.calculate_testing_costs

\* "11KV" in sku_name or "33KV" in sku_name or "HT" in sku_name
IsHT(pid) == pid = "HT-33KV-001"

\* Which tests of the master apply to an item
AppliesTo(test, pid) ==
    \/ "All Cables" \in test.mandatory_for
    \/ IsHT(pid) /\ "HT Cables" \in test.mandatory_for
    \/ ~IsHT(pid) /\ "LT Cables" \in test.mandatory_for

\* Cost estimate of one test for an item: drums = max(1, qty / 500)
OneTestCost(test, pid, qty) ==
    IF ~AppliesTo(test, pid) THEN 0
    ELSE IF test.test_category = "Routine Test" /\ qty > 500
    THEN (test.base_test_cost * qty) \div 500
    ELSE test.base_test_cost

RECURSIVE ItemTestCost(_, _, _)
ItemTestCost(tests, pid, qty) ==
    IF tests = <<>> THEN 0
    ELSE OneTestCost(Head(tests), pid, qty) + ItemTestCost(Tail(tests), pid, qty)

\* test ids of the master that apply to an item
ItemTestCodes(pid) ==
    {TESTS[j].test_id : j \in {i \in 1..Len(TESTS) : AppliesTo(TESTS[i], pid)}}

RECURSIVE calculate_testing_costs(_)
calculate_testing_costs(matched_items) ==
    LET Raised == [NoResult EXCEPT !.op = "calculate_testing_costs",
                                   !.status = "Raised", !.error = "ValueError"]
        Add(pid, q, rest) ==
            IF ~q.ok \/ rest.status = "Raised" THEN Raised
            ELSE [rest EXCEPT
                    !.total_testing_cost = @ + ItemTestCost(TESTS, pid, q.v),
                    !.test_codes = @ \cup ItemTestCodes(pid)]
    IN IF matched_items = <<>>
       THEN [NoResult EXCEPT !.op = "calculate_testing_costs", !.status = "Completed"]
       ELSE Add(Head(matched_items).matched_sku_id,
                QuantityOrZero(Head(matched_items).quantity),
                calculate_testing_costs(Tail(matched_items)))

----------------------------------------------------------------------------
\* RealTechAgent: product matching.  Sub-scores (0.0 .. 1.0) are held in
\* thousandths, the weighted sum in thousandths of a point, the match score
\* (0.0 .. 100.0, one decimal) in tenths.

\* Bounds of the matching inputs
MaxCatalog == 2
MaxStandards == 3
MaxLines == 1

\* A JSON value of a requirement or of a product specification
NoneV == [t |-> "None", s |-> "", n |-> 0]
AbsentV == [t |-> "Absent", s |-> "", n |-> 0]
StrV(s) == [t |-> "Str", s |-> s, n |-> 0]
NumV(n) == [t |-> "Num", s |-> "", n |-> n]

\* standards: None, a string or a list of strings
NoStandards == [t |-> "None", s |-> "", l |-> <<>>]
StandardsStr(s) == [t |-> "Str", s |-> s, l |-> <<>>]
StandardsList(l) == [t |-> "List", s |-> "", l |-> l]

\* round(num / den, 0) for num >= 0, den > 0: to the nearest, a tie to even
RoundDiv(num, den) ==
    LET Pick(q, twice) ==
            IF twice > den \/ (twice = den /\ q % 2 = 1) THEN q + 1 ELSE q
    IN Pick(num \div den, 2 * (num % den))

\* str(v).strip().lower() on the strings of the model
Lower(s) ==
    CASE s = "NOT SPECIFIED" -> "not specified"
      [] s = " Not Specified " -> "not specified"
      [] s = "Cu" -> "cu"
      [] s = "Copper" -> "copper"
      [] s = "Aluminium (Solid)" -> "aluminium (solid)"
      [] s = "XLPE" -> "xlpe"
      [] s = "XLPE Insulated" -> "xlpe insulated"
      [] s = "PVC" -> "pvc"
      [] s = "Steel Wire" -> "steel wire"
      [] OTHER -> s

normalize(v) == IF v.t = "None" THEN NoneV ELSE StrV(Lower(v.s))

\* None, "" and any spelling of "NOT SPECIFIED"
is_not_specified(v) ==
    \/ v.t = "None"
    \/ v.t = "Str" /\ Lower(v.s) \in {"not specified", ""}

\* The parenthesised qualification is removed, then the synonym map and the
\* token test decide.
normalize_material(v) ==
    LET Name(n) ==
            CASE n \in {"cu", "copper"} -> "copper"
              [] n \in {"al", "aluminium", "aluminium (solid)"} -> "aluminium"
              [] OTHER -> n
        Norm(n) == IF n.t = "None" \/ n.s = "" THEN NoneV ELSE StrV(Name(n.s))
    IN Norm(normalize(v))

\* Lower case without "(...)" and ":yyyy"; None for an empty string
normalize_standard(s) ==
    IF s = "" THEN NoneV
    ELSE StrV(CASE s \in {"IS 1554 (Part-1)", "IS 1554:1988"} -> "is 1554"
                [] s = "IEC 60502" -> "iec 60502"
                [] s = "IS 7098" -> "is 7098"
                [] s = "ISI Marked" -> "isi marked"
                [] OTHER -> Lower(s))

\* Volts: 0 for None, "" and a string without a number (the IndexError of
\* re.findall(...)[0] is caught)
normalize_voltage(v) ==
    IF v.t # "Str" THEN 0
    ELSE CASE v.s \in {"1.1kV", "1100V"} -> 1100
           [] v.s = "1000V" -> 1000
                      [] OTHER -> 0

\* float(v): [ok, v]; None and a non-numeric string raise
FloatOf(v) ==
    CASE v.t = "Num" -> [ok |-> TRUE, v |-> v.n]
      [] v.t = "Absent" -> [ok |-> TRUE, v |-> 0]
      [] v.t = "Str" /\ v.s = "400" -> [ok |-> TRUE, v |-> 400]
      [] OTHER -> [ok |-> FALSE, v |-> 0]

Abs(x) == IF x < 0 THEN -x ELSE x

\* A proportional score that is not cut off at zero.
ProportionalScoreUnclamped(r, i) ==
    IF r < 0 THEN 1000 + RoundDiv(Abs(i - r) * 1000, -r)
    ELSE IF Abs(i - r) <= r THEN RoundDiv((r - Abs(i - r)) * 1000, r)
    ELSE -RoundDiv((Abs(i - r) - r) * 1000, r)

\* max(0.0, round(1.0 - abs(i - r) / r, 3)) for r # 0; a negative r makes
\* the quotient negative and the score larger than 1.0
ProportionalScore(r, i) ==
    IF r < 0 THEN 1000 + RoundDiv(Abs(i - r) * 1000, -r)
    ELSE IF Abs(i - r) >= r THEN 0
    ELSE RoundDiv((r - Abs(i - r)) * 1000, r)

\* [raised, v]: raised stands for the ZeroDivisionError of abs(i - r) / r
match_cross_section(rfp_val, inv_val) ==
    LET Score(r, i) ==
            IF ~r.ok \/ ~i.ok THEN [raised |-> FALSE, v |-> 0]
            ELSE IF r.v = 0 THEN [raised |-> TRUE, v |-> 0]
            ELSE [raised |-> FALSE, v |-> ProportionalScore(r.v, i.v)]
    IN IF is_not_specified(rfp_val) THEN [raised |-> FALSE, v |-> 1000]
       ELSE Score(FloatOf(rfp_val), FloatOf(inv_val))

\* A standard that counts only when the product lists it.
SatisfiedIfListed(std, inv_norm) == std \in inv_norm

\* Whether a normalized required standard earns its share
Satisfied(std, inv_norm) == std = StrV("isi marked") \/ std \in inv_norm

match_standards(rfp_list, inv_list) ==
    LET AsList(x) == IF x.t = "Str" THEN <<x.s>> ELSE x.l
        Score(rfp_norm, inv_norm) ==
            RoundDiv(1000 * Cardinality({k \in 1..Len(rfp_norm) :
                                            Satisfied(rfp_norm[k], inv_norm)}),
                     Len(rfp_norm))
        Norm(rl, il) ==
            Score([k \in 1..Len(rl) |-> normalize_standard(rl[k])],
                  {normalize_standard(il[k]) : k \in 1..Len(il)})
    IN IF rfp_list.t = "None" \/ (rfp_list.t = "Str" /\ rfp_list.s = "")
          \/ (rfp_list.t = "List" /\ rfp_list.l = <<>>)
       THEN 1000
       ELSE Norm(AsList(rfp_list), AsList(inv_list))

\* weights of calculate_weighted_score
weights ==
    [voltage_grade |-> 20, core_count |-> 15, cross_section_sqmm |-> 15,
     conductor_material |-> 15, insulation |-> 10, sheath |-> 5,
     armour_type |-> 5, standards |-> 15]

Fields == DOMAIN weights

\* a in b for the normalized strings of the model
IsSubstring(a, b) == a = b \/ (a = "xlpe" /\ b = "xlpe insulated")

\* A voltage credit that counts the weight twice.
VoltageCreditDouble(rfp_v, inv_v) ==
    IF rfp_v = inv_v THEN 2000 * weights.voltage_grade
    ELSE IF rfp_v # 0 /\ inv_v # 0 /\ 10 * Abs(rfp_v - inv_v) < rfp_v
    THEN 500 * weights.voltage_grade
    ELSE 0

\* 1. Voltage (Strict)
VoltageCredit(rfp_v, inv_v) ==
    IF rfp_v = inv_v THEN 1000 * weights.voltage_grade
    ELSE IF rfp_v # 0 /\ inv_v # 0 /\ 10 * Abs(rfp_v - inv_v) < rfp_v
    THEN 500 * weights.voltage_grade
    ELSE 0

\* 2. Core Count (Exact); rfp.get("core_count", 0) of an absent key is 0
CoreCredit(r, i) ==
    IF r.ok /\ i.ok /\ r.v = i.v THEN 1000 * weights.core_count ELSE 0

\* 4. Material (Synonyms)
MaterialCredit(r_mat, i_mat) ==
    IF r_mat = i_mat THEN 1000 * weights.conductor_material ELSE 0

\* 6. Rest (Normal string match)
RestCredit(field, r_val, i_val) ==
    IF /\ r_val.t # "None" /\ r_val.s # ""
       /\ i_val.t # "None" /\ i_val.s # ""
       /\ (IsSubstring(r_val.s, i_val.s) \/ IsSubstring(i_val.s, r_val.s))
    THEN 1000 * weights[field] ELSE 0

\* [raised, score, credit]: the match score and what each field earned
calculate_weighted_score(rfp, inv) ==
    LET Total(credit) ==
            [raised |-> FALSE,
             score |-> RoundDiv(credit.voltage_grade + credit.core_count
                                  + credit.cross_section_sqmm
                                  + credit.conductor_material + credit.standards
                                  + credit.insulation + credit.sheath
                                  + credit.armour_type, 100),
             credit |-> credit]
        Sum(sz) ==
            IF sz.raised
            THEN [raised |-> TRUE, score |-> 0, credit |-> [f \in Fields |-> 0]]
            ELSE Total(
              [voltage_grade |-> VoltageCredit(normalize_voltage(rfp.voltage_grade),
                                               normalize_voltage(inv.voltage_grade)),
               core_count |-> CoreCredit(FloatOf(rfp.core_count),
                                         FloatOf(inv.core_count)),
               cross_section_sqmm |-> weights.cross_section_sqmm * sz.v,
               conductor_material |->
                   MaterialCredit(normalize_material(rfp.conductor_material),
                                  normalize_material(inv.conductor_material)),
               standards |-> weights.standards
                               * match_standards(rfp.standards, inv.standards),
               insulation |-> RestCredit("insulation", normalize(rfp.insulation),
                                         normalize(inv.insulation)),
               sheath |-> RestCredit("sheath", normalize(rfp.sheath),
                                     normalize(inv.sheath)),
               armour_type |-> RestCredit("armour_type", normalize(rfp.armour_type),
                                          normalize(inv.armour_type))])
    IN Sum(match_cross_section(rfp.cross_section_sqmm, inv.cross_section_sqmm))

compute_match_score(rfp_attrs, inv_specs) ==
    calculate_weighted_score(rfp_attrs, inv_specs)

\* A comparison that lets a later product of equal score win.
BetterOrEqual(score, highest_score) == score >= highest_score

\* if score > highest_score
Better(score, highest_score) == score > highest_score

\* The loop over the inventory for one line item, from product k on:
\* [raised, best_match (index, 0 for None), highest_score]
RECURSIVE BestMatchLoop(_, _, _, _)
BestMatchLoop(attrs, inventory, k, acc) ==
    LET Step(res) ==
            IF res.raised THEN [acc EXCEPT !.raised = TRUE]
            ELSE BestMatchLoop(attrs, inventory, k + 1,
                     IF Better(res.score, acc.highest_score)
                     THEN [acc EXCEPT !.highest_score = res.score,
                                      !.best_match = k]
                     ELSE acc)
    IN IF k > Len(inventory) THEN acc
       ELSE Step(compute_match_score(attrs, inventory[k].technical_specs))

\* [raised, results]: one result per line item
RECURSIVE find_best_matches(_, _)
find_best_matches(line_items, inventory) ==
    LET Add(best, rest) ==
            IF best.raised \/ rest.raised
            THEN [raised |-> TRUE, results |-> <<>>]
            ELSE [raised |-> FALSE,
                  results |->
                    << [matched_sku_id |->
                          IF best.best_match # 0
                          THEN inventory[best.best_match].product_id
                          ELSE "NO_MATCH",
                        best_match |-> best.best_match,
                        match_score |-> best.highest_score] >> \o rest.results]
    IN IF line_items = <<>> THEN [raised |-> FALSE, results |-> <<>>]
       ELSE Add(BestMatchLoop(Head(line_items), inventory, 1,
                              [raised |-> FALSE, best_match |-> 0,
                               highest_score |-> -10]),
                find_best_matches(Tail(line_items), inventory))

----------------------------------------------------------------------------
\* Priority ranker: the scores of one RFP

\* summary.submission_deadline as get_urgency_score sees it: missing (None or
\* ""), a string fromisoformat rejects, or a date days_left days from now.
Deadline(kind, days_left) == [kind |-> kind, days_left |-> days_left]

\* get_urgency_score(deadline_str), in percent
UrgencyOfDeadline(deadline_str, max_urgency_days) ==
    IF deadline_str.kind = "missing" THEN 0
    ELSE IF deadline_str.kind = "unparsable" THEN 0
    ELSE get_urgency_score(deadline_str.days_left, max_urgency_days)

\* total_score * 40000 = p_win * (1 + gamma * u_score), sub-scores in percent
CompositeScore(p_score, r_score, u_score) ==
    (p_score + r_score) * (200 + u_score)

\* round(score_data['total'] * 100, 1), in tenths of a point
priority_score(total) == RoundDiv(total, 40)

----------------------------------------------------------------------------
\* Threads: request handlers of app.py and background pipeline threads.
\* Threads carry no identity, so the ones in flight form a bag.

\* `dirty`: the thread changed pricing, archival status, the record set or the
\* settings and has not completed a ranker run since.
NewThread ==
    [kind |-> "", pc |-> "", rfp |-> 0, doc |-> "", auto |-> FALSE,
     tmp |-> "", snap |-> <<>>, left |-> 0, dirty |-> FALSE]

\* max_urgency_days values the settings form may store (90 is the default)
UrgencyWindows == {30, 90}

Threads == BagToSet(procs)

\* A request arrives or a thread is started.
Start(pr) ==
    /\ BagCardinality(procs) < MaxThreads
    /\ procs' = procs (+) SetToBag({pr})
    /\ UNCHANGED returned_dirty

\* Thread pr takes a step and goes on as pr2.
Continue(pr, pr2) ==
    /\ procs' = (procs (-) SetToBag({pr})) (+) SetToBag({pr2})
    /\ UNCHANGED returned_dirty

\* Thread pr returns.
Return(pr, dirty) ==
    /\ procs' = procs (-) SetToBag({pr})
    /\ returned_dirty' = (returned_dirty \/ dirty)

\* The thread goes on to n runs of recalculate_all_priorities.
StartRank(pr, n) ==
    [pr EXCEPT !.pc = "rank_load", !.left = n, !.snap = <<>>, !.tmp = "",
               !.rfp = 0, !.doc = "", !.auto = FALSE]

\* One more dashboard request is served.
NewRequest == requests < MaxRequests /\ requests' = requests + 1

Quiescent == procs = EmptyBag

TypeOK ==
    /\ clock \in 0..MaxTime
    /\ uploads \in 0..MaxUploads
    /\ requests \in 0..MaxRequests
    /\ settings \in UrgencyWindows
    /\ Len(db) <= MaxUploads
    /\ BagCardinality(procs) <= MaxThreads
    /\ \A pr \in Threads : pr.pc \in
         {"up_save", "sales", "sales_save", "manual_load", "manual_save",
          "tech_load", "tech_save", "price_load", "price_save",
          "rank_load", "rank_save", "rt_save", "rp_save", "ar_save", "del_save"}

Init ==
    /\ db = <<>>
    /\ procs = EmptyBag
    /\ clock = 0
    /\ uploads = 0
    /\ requests = 0
    /\ settings = 90
    /\ logistics_empty \in BOOLEAN
    /\ returned_dirty = FALSE
    /\ pin = 0
    /\ pout = 0

----------------------------------------------------------------------------
\* MainAgent.process_rfp

\* `elapsed` seconds have passed since the clock was last read; rfp_id is
\* taken from the clock, then load_db.
process_rfp_load(doc, auto_mode, elapsed) ==
    /\ uploads < MaxUploads
    /\ clock + elapsed <= MaxTime
    /\ uploads = 0 => elapsed = 0
    /\ uploads' = uploads + 1
    /\ clock' = clock + elapsed
    /\ Start([NewThread EXCEPT !.kind = "upload", !.pc = "up_save",
                               !.rfp = clock', !.doc = doc,
                               !.auto = auto_mode, !.snap = db])
    /\ UNCHANGED <<db, requests, settings, logistics_empty, pureVars>>

\* data.insert(0, new_record); save_db(data); the pipeline thread starts.
process_rfp_save(pr) ==
    /\ pr.pc = "up_save"
    /\ db' = <<NewRecord(pr.rfp)>> \o pr.snap
    /\ Continue(pr, [pr EXCEPT !.kind = "pipeline", !.pc = "sales", !.snap = <<>>])
    /\ UNCHANGED <<clock, uploads, requests, settings, logistics_empty, pureVars>>

----------------------------------------------------------------------------
\* MainAgent._background_pipeline

\* Step 1: the sales API answers (or fails); save_to_db_record loads.
pipeline_sales_load(pr) ==
    /\ pr.pc = "sales"
    /\ Continue(pr, [pr EXCEPT !.pc = "sales_save", !.snap = db, !.doc = "",
                        !.tmp = IF SalesRaises(pr.doc) THEN "Err" ELSE pr.doc])
    /\ UNCHANGED <<db, clock, uploads, requests, settings, logistics_empty, pureVars>>

pipeline_sales_save(pr) ==
    /\ pr.pc = "sales_save"
    /\ IF pr.tmp = "Err"
       THEN /\ db' = save_to_db_record(pr.snap, pr.rfp, "sales_out", "Err",
                                       "Error", NoStage)
            /\ Return(pr, pr.dirty)
       ELSE /\ db' = save_to_db_record(pr.snap, pr.rfp, "sales_out", pr.tmp,
                        "Sales Completed",
                        [NoStage EXCEPT !.sales = "Completed", !.tech = "Pending"])
            /\ Continue(pr, [pr EXCEPT
                                !.pc = IF pr.auto THEN "tech_load" ELSE "manual_load",
                                !.auto = FALSE, !.snap = <<>>])
    /\ UNCHANGED <<clock, uploads, requests, settings, logistics_empty, pureVars>>

\* Manual mode: save_to_db_record(rfp_id, "status", ..., "Waiting for Manual Action")
pipeline_manual_load(pr) ==
    /\ pr.pc = "manual_load"
    /\ Continue(pr, [pr EXCEPT !.pc = "manual_save", !.snap = db])
    /\ UNCHANGED <<db, clock, uploads, requests, settings, logistics_empty, pureVars>>

pipeline_manual_save(pr) ==
    /\ pr.pc = "manual_save"
    /\ db' = save_to_db_record(pr.snap, pr.rfp, "status", "Pending Tech Analysis",
                               "Waiting for Manual Action", NoStage)
    /\ Return(pr, pr.dirty)
    /\ UNCHANGED <<clock, uploads, requests, settings, logistics_empty, pureVars>>

\* Step 2: process_rfp_data(actual_sales_data), then save_to_db_record loads.
pipeline_tech_load(pr) ==
    /\ pr.pc = "tech_load"
    /\ Continue(pr, [pr EXCEPT !.pc = "tech_save", !.snap = db,
                               !.tmp = TechOutput(pr.tmp)])
    /\ UNCHANGED <<db, clock, uploads, requests, settings, logistics_empty, pureVars>>

pipeline_tech_save(pr) ==
    /\ pr.pc = "tech_save"
    /\ db' = IF pr.tmp = "Err"
             THEN save_to_db_record(pr.snap, pr.rfp, "tech_out", "Err",
                                    "Tech Failed", NoStage)
             ELSE save_to_db_record(pr.snap, pr.rfp, "tech_out", pr.tmp,
                      "Technical Analysis Done",
                      [NoStage EXCEPT !.tech = "Completed", !.pricing = "Pending"])
    /\ Continue(pr, [pr EXCEPT !.pc = "price_load", !.snap = <<>>, !.tmp = ""])
    /\ UNCHANGED <<clock, uploads, requests, settings, logistics_empty, pureVars>>

\* Step 3: RealPricingAgent() loads the reference tables, process_pricing
\* runs on the record get_rfp_record returns, then save_to_db_record loads.
pipeline_price_load(pr) ==
    /\ pr.pc = "price_load"
    /\ Continue(pr, [pr EXCEPT !.pc = "price_save", !.snap = db,
                               !.tmp = PricingOutput(logistics_empty)])
    /\ UNCHANGED <<db, clock, uploads, requests, settings, logistics_empty, pureVars>>

\* What the pipeline stores when process_pricing raised.
PipelinePricingFailed(data, rfp_id) ==
    save_to_db_record(data, rfp_id, "pricing_out", "Err", "Pricing Failed", NoStage)

pipeline_price_save(pr) ==
    /\ pr.pc = "price_save"
    /\ db' = IF pr.tmp = "Err"
             THEN PipelinePricingFailed(pr.snap, pr.rfp)
             ELSE save_to_db_record(pr.snap, pr.rfp, "pricing_out", "Ok",
                      "Bid Ready for Review",
                      [NoStage EXCEPT !.pricing = "Completed", !.final = "Pending"])
    /\ Continue(pr, StartRank([pr EXCEPT !.dirty = TRUE], 1))
    /\ UNCHANGED <<clock, uploads, requests, settings, logistics_empty, pureVars>>

----------------------------------------------------------------------------
\* RealPriorityAgent().recalculate_all_priorities(), as run by any thread

\* The constructor reads settings.json, the run reads the store and ranks.
rank_load(pr) ==
    /\ pr.pc = "rank_load"
    /\ Continue(pr, [pr EXCEPT !.pc = "rank_save",
                               !.snap = recalculate_all_priorities(db, settings)])
    /\ UNCHANGED <<db, clock, uploads, requests, settings, logistics_empty, pureVars>>

\* json.dump(rfp_list): the whole list is written back.
rank_save(pr) ==
    /\ pr.pc = "rank_save"
    /\ db' = pr.snap
    /\ IF pr.left > 1
       THEN Continue(pr, StartRank([pr EXCEPT !.dirty = FALSE], pr.left - 1))
       ELSE Return(pr, FALSE)
    /\ UNCHANGED <<clock, uploads, requests, settings, logistics_empty, pureVars>>

----------------------------------------------------------------------------
\* app.py: run_specific_agent

Completed(stage) == stage \in {"Completed", "Completed (Manual)"}

\* /run_agent/tech: load_json, then process_rfp_data on the stored sales output
\* (an empty sales output is refused without any effect).
run_tech_load(rfp_id) ==
    /\ NewRequest
    /\ HasId(db, rfp_id)
    /\ get_rfp_record(db, rfp_id).sales_out # "Empty"
    /\ Start([NewThread EXCEPT !.kind = "run_tech", !.pc = "rt_save",
                !.rfp = rfp_id, !.snap = db,
                !.tmp = TechOutput(get_rfp_record(db, rfp_id).sales_out)])
    /\ UNCHANGED <<db, clock, uploads, settings, logistics_empty, pureVars>>

\* The record of the loaded list after a technical re-run.
TechRerunRecord(record, tech_output) ==
    [record EXCEPT !.tech_out = tech_output,
                   !.tech_stage = "Completed",
                   !.status = "Technical Analysis Done",
                   !.pricing_stage = IF @ = "Completed" THEN "Pending" ELSE @]

\* save_json(CENTRAL_DB, data); an exception of the stage is caught and
\* nothing is written.
run_tech_save(pr) ==
    /\ pr.pc = "rt_save"
    /\ db' = IF pr.tmp = "Err" THEN db
             ELSE [pr.snap EXCEPT ![FirstIndex(pr.snap, pr.rfp)] =
                       TechRerunRecord(@, pr.tmp)]
    /\ Return(pr, pr.dirty)
    /\ UNCHANGED <<clock, uploads, requests, settings, logistics_empty, pureVars>>

\* /run_agent/pricing: load_json, dependency check, process_pricing(record).
run_pricing_load(rfp_id) ==
    /\ NewRequest
    /\ HasId(db, rfp_id)
    /\ Completed(get_rfp_record(db, rfp_id).tech_stage)
    /\ Start([NewThread EXCEPT !.kind = "run_pricing", !.pc = "rp_save",
                !.rfp = rfp_id, !.snap = db,
                !.tmp = PricingOutput(logistics_empty)])
    /\ UNCHANGED <<db, clock, uploads, settings, logistics_empty, pureVars>>

\* A re-run that stores the error as the pipeline does.
RerunPricingFailedStored(store, data, rfp_id) ==
    PipelinePricingFailed(data, rfp_id)

\* What a manual pricing re-run stores when process_pricing raised: the
\* exception is caught by the route and the store is not written.
RerunPricingFailed(store, data, rfp_id) == store

\* save_json(CENTRAL_DB, data), then the ranker.
run_pricing_save(pr) ==
    /\ pr.pc = "rp_save"
    /\ IF pr.tmp = "Err"
       THEN /\ db' = RerunPricingFailed(db, pr.snap, pr.rfp)
            /\ Return(pr, pr.dirty)
       ELSE /\ db' = [pr.snap EXCEPT ![FirstIndex(pr.snap, pr.rfp)] =
                        [@ EXCEPT !.pricing_out = "Ok",
                                  !.pricing_stage = "Completed",
                                  !.status = "Bid Ready for Review"]]
            /\ Continue(pr, StartRank([pr EXCEPT !.dirty = TRUE], 1))
    /\ UNCHANGED <<clock, uploads, requests, settings, logistics_empty, pureVars>>

\* /run_agent/priority
run_priority_load ==
    /\ NewRequest
    /\ db # <<>>
    /\ Start([NewThread EXCEPT !.kind = "run_priority", !.pc = "rank_save",
                !.left = 1, !.snap = recalculate_all_priorities(db, settings)])
    /\ UNCHANGED <<db, clock, uploads, settings, logistics_empty, pureVars>>

----------------------------------------------------------------------------
\* app.py: archive_rfp (MainAgent.toggle_archive_status, then the ranker again)

archive_load(rfp_id) ==
    /\ NewRequest
    /\ HasId(db, rfp_id)
    /\ Start([NewThread EXCEPT !.kind = "archive", !.pc = "ar_save",
                               !.rfp = rfp_id, !.snap = db])
    /\ UNCHANGED <<db, clock, uploads, settings, logistics_empty, pureVars>>

\* Number of ranker runs that follow the toggle: one in toggle_archive_status,
\* one in the route.
ArchiveRankRuns == 2

archive_save(pr) ==
    /\ pr.pc = "ar_save"
    /\ db' = [pr.snap EXCEPT ![FirstIndex(pr.snap, pr.rfp)] =
                 [@ EXCEPT !.arch = ~@]]
    /\ Continue(pr, StartRank([pr EXCEPT !.dirty = TRUE], ArchiveRankRuns))
    /\ UNCHANGED <<clock, uploads, requests, settings, logistics_empty, pureVars>>

----------------------------------------------------------------------------
\* app.py: delete_rfp

delete_load(rfp_id) ==
    /\ NewRequest
    /\ HasId(db, rfp_id)
    /\ Start([NewThread EXCEPT !.kind = "delete", !.pc = "del_save",
                               !.rfp = rfp_id, !.snap = db])
    /\ UNCHANGED <<db, clock, uploads, settings, logistics_empty, pureVars>>

\* A delete route that returns without the ranker.
AfterDeleteNoRank(pr) == Return(pr, TRUE)

\* What the route does once the filtered list is saved: the ranker.
AfterDelete(pr) == Continue(pr, StartRank([pr EXCEPT !.dirty = TRUE], 1))

delete_save(pr) ==
    LET keep(d) == d.id # pr.rfp IN
    /\ pr.pc = "del_save"
    /\ db' = SelectSeq(pr.snap, keep)
    /\ AfterDelete(pr)
    /\ UNCHANGED <<clock, uploads, requests, settings, logistics_empty, pureVars>>

----------------------------------------------------------------------------
\* app.py: settings (POST): settings.json is written, then the ranker

settings_save(max_days) ==
    /\ NewRequest
    /\ settings' = max_days
    /\ Start(StartRank([NewThread EXCEPT !.kind = "settings", !.dirty = TRUE], 1))
    /\ UNCHANGED <<db, clock, uploads, logistics_empty, pureVars>>

----------------------------------------------------------------------------

RfpIds == 0..MaxTime

Next ==
    \/ \E d \in Docs, a \in BOOLEAN, e \in 0..1 : process_rfp_load(d, a, e)
    \/ \E r \in RfpIds : run_tech_load(r)
    \/ \E r \in RfpIds : run_pricing_load(r)
    \/ run_priority_load
    \/ \E r \in RfpIds : archive_load(r)
    \/ \E r \in RfpIds : delete_load(r)
    \/ \E m \in UrgencyWindows : settings_save(m)
    \/ \E pr \in Threads : process_rfp_save(pr)
    \/ \E pr \in Threads : pipeline_sales_load(pr)
    \/ \E pr \in Threads : pipeline_sales_save(pr)
    \/ \E pr \in Threads : pipeline_manual_load(pr)
    \/ \E pr \in Threads : pipeline_manual_save(pr)
    \/ \E pr \in Threads : pipeline_tech_load(pr)
    \/ \E pr \in Threads : pipeline_tech_save(pr)
    \/ \E pr \in Threads : pipeline_price_load(pr)
    \/ \E pr \in Threads : pipeline_price_save(pr)
    \/ \E pr \in Threads : rank_load(pr)
    \/ \E pr \in Threads : rank_save(pr)
    \/ \E pr \in Threads : run_tech_save(pr)
    \/ \E pr \in Threads : run_pricing_save(pr)
    \/ \E pr \in Threads : archive_save(pr)
    \/ \E pr \in Threads : delete_save(pr)

Spec == Init /\ [][Next]_vars

----------------------------------------------------------------------------
\* SpecPricing: the pricing functions applied to one input

InitPricing ==
    /\ db = <<>>
    /\ procs = EmptyBag
    /\ clock = 0
    /\ uploads = 0
    /\ requests = 0
    /\ settings = 90
    /\ logistics_empty = FALSE
    /\ returned_dirty = FALSE
    /\ \E items \in ItemLists, codes \in TestCodeLists, rivals \in RivalLists,
          client \in ClientNames, loc \in Locations, table \in LogisticsTables,
          factory \in FactorySchedules, cfg \in PricingSettings :
          pin = [items |-> items, required_test_codes |-> codes,
                 competitor_codes |-> rivals, client_name |-> client,
                 delivery_location |-> loc, distance_from_factory_km |-> 500,
                 logistics |-> table, factory |-> factory, settings |-> cfg]
    /\ pout = NoResult

RunProcessPricing ==
    /\ pout.op = "none"
    /\ pout' = process_pricing(pin)
    /\ UNCHANGED <<storeVars, pin>>

RunCalculateTestingCosts ==
    /\ pout.op = "none"
    /\ pout' = calculate_testing_costs(pin.items)
    /\ UNCHANGED <<storeVars, pin>>

RunSolveGameTheory ==
    /\ pout.op = "none"
    /\ pout' = [NoResult EXCEPT !.op = "solve_game_theory", !.status = "Returned",
                  !.competitor_impact = solve_game_theory(pin.competitor_codes)]
    /\ UNCHANGED <<storeVars, pin>>

NextPricing ==
    \/ RunProcessPricing
    \/ RunCalculateTestingCosts
    \/ RunSolveGameTheory

SpecPricing == InitPricing /\ [][NextPricing]_vars

----------------------------------------------------------------------------
\* SpecCalls: one call of one function of the matching and costing code

\* Products of product_master_enriched.json as the tech agent reads them.
\* SKU-A and SKU-A2 differ in the product id only.
SpecsA ==
    [voltage_grade |-> StrV("1100V"), core_count |-> NumV(3),
     cross_section_sqmm |-> NumV(400), conductor_material |-> StrV("Copper"),
     standards |-> StandardsList(<<"IS 1554 (Part-1)", "IEC 60502">>),
     insulation |-> StrV("XLPE Insulated"), sheath |-> StrV("PVC"),
     armour_type |-> StrV("Steel Wire")]

CatalogProducts ==
    { [product_id |-> "SKU-A", technical_specs |-> SpecsA],
      [product_id |-> "SKU-A2", technical_specs |-> SpecsA],
      [product_id |-> "SKU-B",
       technical_specs |-> [SpecsA EXCEPT !.cross_section_sqmm = NumV(499)]],
      [product_id |-> "SKU-C",
       technical_specs |->
         [voltage_grade |-> StrV("1000V"), core_count |-> AbsentV,
          cross_section_sqmm |-> NumV(380),
          conductor_material |-> StrV("Aluminium (Solid)"),
          standards |-> NoStandards, insulation |-> StrV("PVC"),
          sheath |-> NoneV, armour_type |-> NoneV]] }

Inventories == SeqsUpTo(CatalogProducts, MaxCatalog)

\* technical_attributes of a line item as the extraction stage may store them
RfpAttributes ==
    [voltage_grade : {NoneV, StrV("NOT SPECIFIED"), StrV("1.1kV")},
     core_count : {NoneV, StrV("NOT SPECIFIED"), NumV(3)},
     cross_section_sqmm : {NoneV, StrV("NOT SPECIFIED"), NumV(-500), NumV(0),
                           NumV(400), NumV(500)},
     conductor_material : {NoneV, StrV("NOT SPECIFIED"), StrV("Cu")},
     standards : {NoStandards, StandardsStr("NOT SPECIFIED"),
                  StandardsList(<<"IS 1554:1988", "IS 7098">>),
                  StandardsList(<<"IS 1554:1988", "ISI Marked">>)},
     insulation : {NoneV, StrV(""), StrV(" Not Specified "), StrV("XLPE")},
     sheath : {NoneV, StrV("PVC")},
     armour_type : {NoneV, StrV("Steel Wire")}]

\* A line item that states every field
FullAttributes ==
    [voltage_grade |-> StrV("1.1kV"), core_count |-> NumV(3),
     cross_section_sqmm |-> NumV(400), conductor_material |-> StrV("Cu"),
     standards |-> StandardsList(<<"IS 1554:1988", "ISI Marked">>),
     insulation |-> StrV("XLPE"), sheath |-> StrV("PVC"),
     armour_type |-> StrV("Steel Wire")]

\* The line items find_best_matches is called with
LineAttributes ==
    { FullAttributes,
      [FullAttributes EXCEPT !.cross_section_sqmm = NumV(500)],
      [FullAttributes EXCEPT !.cross_section_sqmm = NumV(0)],
      [FullAttributes EXCEPT !.voltage_grade = NoneV,
                             !.conductor_material = NoneV],
      [FullAttributes EXCEPT !.standards = StandardsStr("NOT SPECIFIED"),
                             !.insulation = NoneV, !.sheath = NoneV,
                             !.armour_type = NoneV] }

\* Arguments of match_cross_section
SizeRequirements ==
    {NoneV, StrV(""), StrV("NOT SPECIFIED"), StrV("400"), StrV("XLPE"),
     NumV(-500), NumV(0), NumV(300), NumV(400), NumV(500)}
SizeCandidates ==
    {NoneV, StrV("XLPE"), NumV(0), NumV(380), NumV(400), NumV(499), NumV(800),
     NumV(1000)}

\* Arguments of match_standards
StandardNames == {"IS 1554:1988", "IS 7098", "ISI Marked", "IEC 60502"}
StandardRequirements ==
    {NoStandards, StandardsStr(""), StandardsStr("NOT SPECIFIED"),
     StandardsStr("IS 1554:1988")}
      \cup {StandardsList(l) : l \in SeqsUpTo(StandardNames, MaxStandards)}
StandardCandidates ==
    {NoStandards, StandardsStr("IS 1554 (Part-1)"),
     StandardsList(<<"IS 1554 (Part-1)", "IEC 60502">>)}

\* Arguments of calculate_micro_bom_cost
BomProducts == {"LT-001", "LT-AL-002", "HT-33KV-001", "NO_MATCH"}
BomLengths == {500, 1000, 1200, 5000}

\* Arguments of get_urgency_score and the sub-scores of one ranked RFP
Deadlines ==
    {Deadline("missing", 0), Deadline("unparsable", 0)}
        \cup {Deadline("date", d) : d \in {-400, -1, 0, 1, 10, 30, 45, 90, 91, 400}}
ProductFitScores == {0, 40, 70, 85, 100}
RelationshipScores == {50, 60, 70, 80, 90}

NoCall ==
    [op |-> "none", status |-> "", v |-> 0, credit |-> [f \in Fields |-> 0],
     results |-> <<>>,
     bom |-> [total_mfg_cost |-> 0, total_weight_kg |-> 0,
              risk_buffer_total |-> 0, mfg_overhead |-> 0, estimate |-> FALSE]]

InitCalls ==
    /\ db = <<>>
    /\ procs = EmptyBag
    /\ clock = 0
    /\ uploads = 0
    /\ requests = 0
    /\ settings = 90
    /\ logistics_empty = FALSE
    /\ returned_dirty = FALSE
    /\ \/ \E r \in SizeRequirements, i \in SizeCandidates :
             pin = [fn |-> "match_cross_section", rfp_val |-> r, inv_val |-> i]
       \/ \E r \in StandardRequirements, i \in StandardCandidates :
             pin = [fn |-> "match_standards", rfp_list |-> r, inv_list |-> i]
       \/ \E r \in RfpAttributes, p \in CatalogProducts :
             pin = [fn |-> "calculate_weighted_score", rfp |-> r,
                    inv |-> p.technical_specs]
       \/ \E items \in SeqsUpTo(LineAttributes, MaxLines), inventory \in Inventories :
             pin = [fn |-> "find_best_matches", line_items |-> items,
                    inventory |-> inventory]
       \/ \E p \in BomProducts, q \in BomLengths :
             pin = [fn |-> "calculate_micro_bom_cost", product_id |-> p,
                    total_qty_mtr |-> q]
       \/ \E d \in Deadlines, w \in UrgencyWindows :
             pin = [fn |-> "get_urgency_score", deadline_str |-> d,
                    max_urgency_days |-> w]
       \/ \E p \in ProductFitScores, r \in RelationshipScores,
             d \in Deadlines, w \in UrgencyWindows :
             pin = [fn |-> "priority_score", p_score |-> p, r_score |-> r,
                    deadline_str |-> d, max_urgency_days |-> w]
    /\ pout = NoCall

Called(fn) == pin.fn = fn /\ pout.op = "none"

Status(raised) == IF raised THEN "Raised" ELSE "Returned"

RunMatchCrossSection ==
    /\ Called("match_cross_section")
    /\ LET Result(res) == [NoCall EXCEPT !.op = pin.fn,
                                         !.status = Status(res.raised),
                                         !.v = res.v]
       IN pout' = Result(match_cross_section(pin.rfp_val, pin.inv_val))
    /\ UNCHANGED <<storeVars, pin>>

RunMatchStandards ==
    /\ Called("match_standards")
    /\ pout' = [NoCall EXCEPT !.op = pin.fn, !.status = "Returned",
                              !.v = match_standards(pin.rfp_list, pin.inv_list)]
    /\ UNCHANGED <<storeVars, pin>>

RunCalculateWeightedScore ==
    /\ Called("calculate_weighted_score")
    /\ LET Result(res) == [NoCall EXCEPT !.op = pin.fn,
                                         !.status = Status(res.raised),
                                         !.v = res.score, !.credit = res.credit]
       IN pout' = Result(calculate_weighted_score(pin.rfp, pin.inv))
    /\ UNCHANGED <<storeVars, pin>>

RunFindBestMatches ==
    /\ Called("find_best_matches")
    /\ LET Result(res) == [NoCall EXCEPT !.op = pin.fn,
                                         !.status = Status(res.raised),
                                         !.results = res.results]
       IN pout' = Result(find_best_matches(pin.line_items, pin.inventory))
    /\ UNCHANGED <<storeVars, pin>>

RunCalculateMicroBomCost ==
    /\ Called("calculate_micro_bom_cost")
    /\ pout' = [NoCall EXCEPT !.op = pin.fn, !.status = "Returned",
                  !.bom = calculate_micro_bom_cost(pin.product_id,
                                                   pin.total_qty_mtr)]
    /\ UNCHANGED <<storeVars, pin>>

RunGetUrgencyScore ==
    /\ Called("get_urgency_score")
    /\ pout' = [NoCall EXCEPT !.op = pin.fn, !.status = "Returned",
                  !.v = UrgencyOfDeadline(pin.deadline_str, pin.max_urgency_days)]
    /\ UNCHANGED <<storeVars, pin>>

\* One pass of the scoring loop of recalculate_all_priorities and the
\* priority_score stored for that RFP.
RunPriorityScore ==
    /\ Called("priority_score")
    /\ LET Result(u_score) ==
               [NoCall EXCEPT !.op = pin.fn, !.status = "Returned",
                   !.v = priority_score(CompositeScore(pin.p_score, pin.r_score,
                                                       u_score))]
       IN pout' = Result(UrgencyOfDeadline(pin.deadline_str, pin.max_urgency_days))
    /\ UNCHANGED <<storeVars, pin>>

NextCalls ==
    \/ RunMatchCrossSection
    \/ RunMatchStandards
    \/ RunCalculateWeightedScore
    \/ RunFindBestMatches
    \/ RunCalculateMicroBomCost
    \/ RunGetUrgencyScore
    \/ RunPriorityScore

SpecCalls == InitCalls /\ [][NextCalls]_vars

----------------------------------------------------------------------------
\* SpecKeys: RealSalesAgent.try_generate_with_models, one model call per step

\* Largest number of API keys load_api_keys has found
MaxKeys == 4

model_candidates == <<"gemini-1.5-flash", "gemini-1.5-pro", "gemini-pro">>

\* rotate_api_key: the index after the call, api_keys being the number of keys
rotate_api_key(current_key_index, api_keys) ==
    IF api_keys = 0 THEN current_key_index
    ELSE (current_key_index + 1) % api_keys

\* The agent is constructed with index 0; earlier calls may have rotated it.
InitKeys ==
    /\ db = <<>>
    /\ procs = EmptyBag
    /\ clock = 0
    /\ uploads = 0
    /\ requests = 0
    /\ settings = 90
    /\ logistics_empty = FALSE
    /\ returned_dirty = FALSE
    /\ \E k \in 0..MaxKeys :
          pin = [fn |-> "try_generate_with_models", api_keys |-> k]
    /\ \E i \in 0..MaxKeys :
          /\ i = 0 \/ i < pin.api_keys
          /\ pout = [pc |-> "call", rotation |-> 0, model |-> 1,
                     current_key_index |-> i, tried |-> {}]

\* generate_content is called with model pout.model under the current key.
Calling ==
    /\ pin.fn = "try_generate_with_models"
    /\ pout.pc = "call"

\* The keys a call has been attempted under, this call included.
TriedNow ==
    IF pin.api_keys = 0 THEN pout.tried
    ELSE pout.tried \cup {pout.current_key_index}

\* The outer loop goes on with its next pass, or is exhausted and the
\* function raises "All models/keys failed."
NextRotation(index) ==
    [pout EXCEPT !.pc = IF pout.rotation + 1 > pin.api_keys THEN "raised"
                        ELSE "call",
                 !.rotation = @ + 1, !.model = 1,
                 !.current_key_index = index, !.tried = TriedNow]

\* return resp.text
CallReturns ==
    /\ Calling
    /\ pout' = [pout EXCEPT !.pc = "returned", !.tried = TriedNow]
    /\ UNCHANGED <<storeVars, pin>>

\* "429" or "quota" in the error: rotate_api_key, break, and rotate_api_key
\* once more after the inner loop.
CallFailsWithQuota ==
    /\ Calling
    /\ pout' = NextRotation(
                  rotate_api_key(rotate_api_key(pout.current_key_index,
                                                pin.api_keys), pin.api_keys))
    /\ UNCHANGED <<storeVars, pin>>

\* Any other error: continue with the next model; after the last model the
\* inner loop ends and rotate_api_key is called.
CallFails ==
    /\ Calling
    /\ pout' = IF pout.model < Len(model_candidates)
               THEN [pout EXCEPT !.model = @ + 1, !.tried = TriedNow]
               ELSE NextRotation(rotate_api_key(pout.current_key_index,
                                                pin.api_keys))
    /\ UNCHANGED <<storeVars, pin>>

NextKeys ==
    \/ CallReturns
    \/ CallFailsWithQuota
    \/ CallFails

SpecKeys == InitKeys /\ [][NextKeys]_vars

----------------------------------------------------------------------------
\* Properties of the store

Active(data) == {i \in 1..Len(data) : ~data[i].arch}

\* The ranks on the non-archived records are a permutation of 1..N and every
\* archived record carries the sentinel -1.
RanksPermutation(data) ==
    /\ \A i \in Active(data) : data[i].rank \in 1..Cardinality(Active(data))
    /\ \A i, j \in Active(data) : i # j => data[i].rank # data[j].rank
    /\ \A i \in 1..Len(data) : data[i].arch => data[i].rank = -1

\* Record r of the old store is still in the new store, ranks aside.
Kept(r) ==
    \E j \in 1..Len(db') : [db'[j] EXCEPT !.rank = 0] = [r EXCEPT !.rank = 0]

\* The step is the write-back of a save_to_db_record call of thread pr.
SaveToDbRecordStep(pr) ==
    \/ pipeline_sales_save(pr)
    \/ pipeline_manual_save(pr)
    \/ pipeline_tech_save(pr)
    \/ pipeline_price_save(pr)

\* C2: when recalculate_all_priorities completes, the ranks it wrote on the N
\* non-archived records are a permutation of 1..N and every archived record
\* carries the sentinel rank -1.
C2_RankerWritesPermutation ==
    [][(\E pr \in Threads : rank_save(pr)) => RanksPermutation(db')]_vars

\* C3: in every quiescent state (no request or pipeline in flight) the ranks
\* of the non-archived records are contiguous 1..N without repeats and the
\* archived records carry the sentinel.
C3_QuiescentRanksContiguous == Quiescent => RanksPermutation(db)

\* C4: save_to_db_record is thread-safe: its write-back loses no record and
\* no field that another writer saved on a record with a different id.
C4_SaveToDbRecordThreadSafe ==
    [][\A pr \in Threads : SaveToDbRecordStep(pr) =>
          \A i \in 1..Len(db) : db[i].id # pr.rfp =>
              \E j \in 1..Len(db') : db'[j] = db[i]]_vars

\* C5: recalculate_all_priorities is atomic relative to the other writers:
\* whatever another writer saved between its read and its write-back (stage
\* output, archive flag, new record) is still there after the write-back.
C5_RankerAtomic ==
    [][\A pr \in Threads : rank_save(pr) =>
          \A i \in 1..Len(db) : Kept(db[i])]_vars

PricingFailedStep(pr) ==
    pr.tmp = "Err" /\ (pipeline_price_save(pr) \/ run_pricing_save(pr))

\* C7 as stated: when the pricing stage fails for an RFP, the
\* pricing_agent_output stored for it before the attempt is retained.
C7_FailureRetainsPriorOutput ==
    [][\A pr \in Threads : PricingFailedStep(pr) =>
          get_rfp_record(db', pr.rfp).pricing_out
              = get_rfp_record(db, pr.rfp).pricing_out]_vars

\* C7 amended: a failed manual pricing re-run leaves the store as it is; a
\* failed pricing stage of the pipeline replaces the stored output by an
\* error marker and sets the status "Pricing Failed".
C7_FailureRetainedOrMarked ==
    [][\A pr \in Threads :
          /\ (pr.tmp = "Err" /\ run_pricing_save(pr)) => db' = db
          /\ (pr.tmp = "Err" /\ pipeline_price_save(pr) /\ HasId(db', pr.rfp)) =>
                /\ get_rfp_record(db', pr.rfp).pricing_out = "Err"
                /\ get_rfp_record(db', pr.rfp).status = "Pricing Failed"]_vars

\* The pipeline has stored an error marker for a record and a manual pricing
\* re-run of that record has failed as well.
C7_Witness ==
    \E pr \in Threads :
        /\ pr.kind = "run_pricing" /\ pr.pc = "rp_save" /\ pr.tmp = "Err"
        /\ get_rfp_record(db, pr.rfp).pricing_out = "Err"
        /\ get_rfp_record(db, pr.rfp).status = "Pricing Failed"

----------------------------------------------------------------------------
\* Properties of the pricing functions

Priced == pout.op = "process_pricing"

\* The quantity is missing: absent, None, 0 or the marker "NOT SPECIFIED".
MissingQuantity(q) == q.t \in {"Absent", "None", "Str"} \/ q.n = 0

SomeQuantityMissing ==
    \E i \in 1..Len(pin.items) : MissingQuantity(pin.items[i].quantity)

AllQuantitiesNumeric ==
    \A i \in 1..Len(pin.items) : pin.items[i].quantity.t # "Str"

\* C1: the final margin process_pricing computes is never below
\* MIN_SURVIVAL_MARGIN, whatever the factory, loyalty, competitive and zone
\* adjustments are.
C1_MarginNotBelowFloor ==
    (Priced /\ pout.status = "Success") => pout.final_margin >= MIN_SURVIVAL_MARGIN

\* The adjustments of a Gold client under competitive pressure took the
\* margin below the floor and the floor was returned.
C1_Witness ==
    /\ Priced /\ pout.status = "Success"
    /\ pout.floor_hit /\ pout.final_margin = MIN_SURVIVAL_MARGIN
    /\ pout.competitor_impact < 0 /\ pin.client_name = "NTPC"

\* C8: process_pricing never raises because of a missing reference entity
\* (unknown product or material, no zone for the location including an empty
\* logistics table, unknown client or competitor): it returns 'Success'.
C8_MissingReferenceNeverRaises ==
    (Priced /\ AllQuantitiesNumeric) => pout.status = "Success"

\* C9: a line item whose quantity is missing (absent, None, 0 or the marker
\* "NOT SPECIFIED") is defaulted: calculate_testing_costs and process_pricing
\* (given its reference tables) complete without raising.
C9_MissingQuantityDefaulted ==
    (/\ SomeQuantityMissing
     /\ \/ pout.op = "calculate_testing_costs"
        \/ Priced /\ pin.logistics # <<>>)
    => pout.status # "Raised"

\* The entries of the competitor list that match a competitor record
MatchedRivals ==
    {i \in 1..Len(pin.competitor_codes) :
        \E k \in 1..Len(COMPETITORS) :
            COMPETITORS[k].competitor_id = pin.competitor_codes[i]}

\* The entries of the competitor list that force a concession
ConcedingRivals ==
    {i \in 1..Len(pin.competitor_codes) : CodeImpact(pin.competitor_codes[i]) > 0}

LargestConcession ==
    Max({0} \cup {CodeImpact(pin.competitor_codes[i]) :
                     i \in 1..Len(pin.competitor_codes)})

\* minus (largest concession + 0.5% for each of the rivals beyond the first)
Crowded(rivals) == -(LargestConcession + 50 * Max({0, Cardinality(rivals) - 1}))

----------------------------------------------------------------------------
\* Properties of the product matching

Scored == pout.op = "calculate_weighted_score" /\ pout.status = "Returned"

\* The requirement value is None, empty or "NOT SPECIFIED"
RequirementUnspecified(v) ==
    \/ v.t = "None"
    \/ v.t = "Str" /\ v.s \in {"", "NOT SPECIFIED", " Not Specified "}

FullCredit(f) == pout.credit[f] = 1000 * weights[f]

\* C11: for every scored field whose requirement value is unspecified (None,
\* empty or 'NOT SPECIFIED'), calculate_weighted_score awards the field's
\* full weight, whatever the candidate product's value.
C11_WildcardEarnsFullWeight ==
    Scored => \A f \in Fields : RequirementUnspecified(pin.rfp[f]) => FullCredit(f)

\* C12: match_cross_section does not raise for a numeric requirement of 0:
\* it returns a score between 0 and 1 for every candidate value.
C12_ZeroRequirementNeverRaises ==
    (pout.op = "match_cross_section" /\ pin.rfp_val = NumV(0))
    => (pout.status = "Returned" /\ pout.v \in 0..1000)

\* match_cross_section was called with a positive requirement and a numeric
\* candidate
PositiveSizes ==
    /\ pout.op = "match_cross_section"
    /\ pin.rfp_val.t = "Num" /\ pin.rfp_val.n > 0
    /\ pin.inv_val.t = "Num"

\* r * max(0, 1 - |c - r| / r)
ProportionalShare(r, c) == Max({0, r - Abs(c - r)})

\* C13 as stated: for a positive requirement r and a numeric candidate c,
\* match_cross_section returns exactly max(0, 1 - |c - r| / r).
C13_ProportionalScoreExact ==
    PositiveSizes =>
        /\ pout.status = "Returned"
        /\ pout.v * pin.rfp_val.n = 1000 * ProportionalShare(pin.rfp_val.n, pin.inv_val.n)

\* C13 amended: for a positive requirement r and a numeric candidate c,
\* match_cross_section returns max(0, 1 - |c - r| / r) rounded to three
\* decimals: 0.95 for r = 400, c = 380, and 0, never a negative value, for
\* r = 400, c = 0 and for every c that is at least 2r.
C13_ProportionalScoreRounded ==
    PositiveSizes =>
        /\ pout.status = "Returned"
        /\ pout.v >= 0
        /\ 2 * Abs(pout.v * pin.rfp_val.n
                     - 1000 * ProportionalShare(pin.rfp_val.n, pin.inv_val.n))
             <= pin.rfp_val.n
        /\ (pin.rfp_val.n = 400 /\ pin.inv_val.n = 380) => pout.v = 950
        /\ (pin.inv_val.n = 0 \/ pin.inv_val.n >= 2 * pin.rfp_val.n) => pout.v = 0

\* match_cross_section has scored a candidate of 380 against a requirement
\* of 400.
C13_Witness ==
    /\ PositiveSizes
    /\ pin.rfp_val.n = 400 /\ pin.inv_val.n = 380
    /\ pout.v = 950

\* The required standards as a list, and the candidate's normalized set
RequiredStandards ==
    IF pin.rfp_list.t = "Str" THEN <<pin.rfp_list.s>> ELSE pin.rfp_list.l

CandidateStandards ==
    {normalize_standard(x) :
        x \in IF pin.inv_list.t = "Str" THEN {pin.inv_list.s}
              ELSE {pin.inv_list.l[k] : k \in 1..Len(pin.inv_list.l)}}

SatisfiedStandards ==
    {k \in 1..Len(RequiredStandards) :
        \/ RequiredStandards[k] = "ISI Marked"
        \/ normalize_standard(RequiredStandards[k]) \in CandidateStandards}

NoStandardRequired ==
    \/ pin.rfp_list.t = "None"
    \/ pin.rfp_list.t = "Str" /\ pin.rfp_list.s = ""
    \/ pin.rfp_list.t = "List" /\ pin.rfp_list.l = <<>>

\* C14 as stated: match_standards returns (number of satisfied requirements)
\* / (number of required standards), and 1.0 for an empty requirement list.
C14_StandardsShareExact ==
    pout.op = "match_standards" =>
        IF NoStandardRequired THEN pout.v = 1000
        ELSE pout.v * Len(RequiredStandards) = 1000 * Cardinality(SatisfiedStandards)

\* C14 amended: match_standards returns (number of satisfied requirements) /
\* (number of required standards) rounded to three decimals, where a
\* requirement is satisfied iff it is the generic 'ISI marked' or its
\* normalized form is in the candidate's normalized set: exactly 0.5 for 2
\* required with 1 satisfied, 1.0 for an empty requirement list.
C14_StandardsShareRounded ==
    pout.op = "match_standards" =>
        IF NoStandardRequired THEN pout.v = 1000
        ELSE /\ 2 * Abs(pout.v * Len(RequiredStandards)
                          - 1000 * Cardinality(SatisfiedStandards))
                  <= Len(RequiredStandards)
             /\ (Len(RequiredStandards) = 2 /\ Cardinality(SatisfiedStandards) = 1)
                   => pout.v = 500

\* match_standards has scored two required standards of which the candidate
\* lists one.
C14_Witness ==
    /\ pout.op = "match_standards"
    /\ pin.rfp_list = StandardsList(<<"IS 1554:1988", "IS 7098">>)
    /\ pin.inv_list = StandardsList(<<"IS 1554 (Part-1)", "IEC 60502">>)
    /\ pout.v = 500

\* C15: the field weights of calculate_weighted_score sum to 100 and the
\* match score it returns lies in [0, 100] for every requirement map and
\* candidate, reaching 100 only when every field earns full credit.
C15_ScoreWithinRange ==
    /\ weights.voltage_grade + weights.core_count + weights.cross_section_sqmm
         + weights.conductor_material + weights.insulation + weights.sheath
         + weights.armour_type + weights.standards = 100
    /\ Scored =>
          /\ pout.v \in 0..1000
          /\ pout.v = 1000 => \A f \in Fields : FullCredit(f)

FoundBest == pout.op = "find_best_matches" /\ pout.status = "Returned"

\* The score of product j of the catalog for line item k
CatalogScore(k, j) ==
    compute_match_score(pin.line_items[k], pin.inventory[j].technical_specs).score

\* The first product of the catalog whose score no product exceeds
FirstOfTheBest(k) ==
    Min({j \in 1..Len(pin.inventory) :
            \A h \in 1..Len(pin.inventory) : CatalogScore(k, h) <= CatalogScore(k, j)})

\* C16: for each line item find_best_matches selects a product whose score
\* is the maximum over the whole catalog, the first in catalog order among
\* those that share the maximum; with an empty catalog the result is
\* 'NO_MATCH'.
C16_FirstBestMatchSelected ==
    FoundBest =>
        /\ Len(pout.results) = Len(pin.line_items)
        /\ \A k \in 1..Len(pout.results) :
              IF pin.inventory = <<>>
              THEN pout.results[k].matched_sku_id = "NO_MATCH"
              ELSE /\ pout.results[k].best_match = FirstOfTheBest(k)
                   /\ pout.results[k].matched_sku_id
                        = pin.inventory[FirstOfTheBest(k)].product_id
                   /\ pout.results[k].match_score
                        = CatalogScore(k, FirstOfTheBest(k))

\* Two products of the catalog share the maximum score and the first of them
\* was selected.
C16_Witness ==
    /\ FoundBest
    /\ Len(pin.line_items) = 1 /\ Len(pin.inventory) = 2
    /\ pin.inventory[1].product_id = "SKU-A2"
    /\ pin.inventory[2].product_id = "SKU-A"
    /\ CatalogScore(1, 1) = CatalogScore(1, 2)
    /\ pout.results[1].matched_sku_id = "SKU-A2"

----------------------------------------------------------------------------
\* Properties of the costing

Exploded == pout.op = "calculate_micro_bom_cost" /\ ~pout.bom.estimate

\* mat_cost_total of the result
MaterialCost ==
    pout.bom.total_mfg_cost - pout.bom.mfg_overhead - pout.bom.risk_buffer_total

\* C17: calculate_micro_bom_cost computes the manufacturing overhead as the
\* overhead rate times the material cost including the hedging risk buffer.
C17_OverheadIncludesBuffer ==
    Exploded =>
        pout.bom.mfg_overhead
          = ((MaterialCost + pout.bom.risk_buffer_total) * FACTORY_OVERHEAD_RATE) \div 100

\* The product calculate_micro_bom_cost was called for
CostedProduct == CHOOSE p \in Range(PRODUCTS) : p.product_id = pin.product_id

\* quantity per metre x (base cost x market factor) x length of a BOM line
\* (500 per unit for a material the master does not hold)
ComponentCost(line) ==
    IF \E m \in Range(MATERIALS) : m.material_id = line.material_id
    THEN LET mat == CHOOSE m \in Range(MATERIALS) : m.material_id = line.material_id
         IN MulDiv(line.quantity * mat.base_cost_per_unit * mat.current_market_factor,
                   pin.total_qty_mtr, 10000)
    ELSE MulDiv(line.quantity * 500, pin.total_qty_mtr, 100)

RECURSIVE ComponentsCost(_)
ComponentsCost(bom) ==
    IF bom = <<>> THEN 0 ELSE ComponentCost(Head(bom)) + ComponentsCost(Tail(bom))

\* C18: for a catalog SKU with a bill of materials, calculate_micro_bom_cost
\* returns material cost + overhead + risk buffer, the material cost being
\* the sum over the BOM of quantity per metre x (base cost x market factor) x
\* length: 5000 m at 0.5 units/m of a non-volatile material of rate 100 and
\* factor 1.0 give material 250,000, overhead 30,000, buffer 0, total 280,000.
C18_BomCostTotal ==
    (Exploded /\ CostedProduct.bill_of_materials # <<>>) =>
        /\ MaterialCost = ComponentsCost(CostedProduct.bill_of_materials)
        /\ pout.bom.mfg_overhead = (MaterialCost * FACTORY_OVERHEAD_RATE) \div 100
        /\ (pin.product_id = "LT-AL-002" /\ pin.total_qty_mtr = 5000) =>
              /\ MaterialCost = 250000
              /\ pout.bom.mfg_overhead = 30000
              /\ pout.bom.risk_buffer_total = 0
              /\ pout.bom.total_mfg_cost = 280000

\* calculate_micro_bom_cost has costed 5000 m of the aluminium cable.
C18_Witness ==
    /\ Exploded
    /\ pin.product_id = "LT-AL-002" /\ pin.total_qty_mtr = 5000
    /\ pout.bom.total_mfg_cost = 280000

\* C19: the testing cost process_pricing charges for a line item is never
\* zero: when the test codes yield no cost for the item, the flat HV or LV
\* base cost is charged instead.
C19_TestingCostNeverZero ==
    (Priced /\ pout.status = "Success" /\ pin.items # <<>>) =>
        /\ pout.total_testing_cost > 0
        /\ \A i \in 1..Len(pin.items) :
              ItemCost(pin.items[i], pin.required_test_codes, pin.settings).test > 0

\* C20: process_pricing computes final margin = base target margin + factory
\* adjustment + loyalty adjustment + competitive adjustment + zone risk, and
\* the survival floor when that sum is below the floor: base 22%, factory
\* overload (+5%), one very aggressive competitor (-3%), no loyalty tier and
\* no zone risk give 24%.
C20_FinalMarginIsSumOrFloor ==
    (Priced /\ pout.status = "Success") =>
        /\ pout.final_margin
             = Max({MIN_SURVIVAL_MARGIN,
                    pout.target_margin + pout.factory_adjustment
                      + pout.loyalty_discount + pout.competitor_impact
                      + pout.zone_risk})
        /\ (/\ pout.target_margin = 2200 /\ pout.factory_adjustment = 500
            /\ pout.competitor_impact = -300 /\ pout.loyalty_discount = 0
            /\ pout.zone_risk = 0) => pout.final_margin = 2400

\* An overloaded factory and one very aggressive rival: 22% + 5% - 3%.
C20_Witness ==
    /\ Priced /\ pout.status = "Success"
    /\ ~pin.settings.present
    /\ pin.competitor_codes = <<"AGG">>
    /\ pin.client_name = "Unknown"
    /\ pout.factory_adjustment = OVERLOAD_PREMIUM
    /\ pout.zone_risk = 0
    /\ pout.final_margin = 2400


----------------------------------------------------------------------------
\* Properties of the priority ranker

PriorityScored == pin.fn = "priority_score" /\ pout.op = pin.fn

\* C21: the priority_score recalculate_all_priorities stores for a
\* non-archived RFP lies on the 0-100 scale (here in tenths: 0..1000), for
\* every combination of product-fit, relationship and urgency scores.
C21_PriorityScoreOnScale == PriorityScored => pout.v \in 0..1000

UrgencyScored == pin.fn = "get_urgency_score" /\ pout.op = pin.fn

\* C22: get_urgency_score returns a value in [0, 1] (here 0..100 percent) for
\* every deadline: 1 - min(daysLeft, window) / window when daysLeft >= 0, and
\* exactly 0 when the deadline is missing, unparsable or already expired.
C22_UrgencyScore ==
    UrgencyScored =>
        LET d == pin.deadline_str
            w == pin.max_urgency_days
        IN /\ pout.v \in 0..100
           /\ (d.kind = "date" /\ d.days_left >= 0) =>
                  pout.v = 100 - ((100 * (IF d.days_left < w THEN d.days_left ELSE w))
                                    \div w)
           /\ (d.kind # "date" \/ d.days_left < 0) => pout.v = 0

\* get_urgency_score has returned for a deadline ten days ahead, inside a
\* window of thirty days.
C22_Witness ==
    /\ UrgencyScored
    /\ pin.deadline_str = Deadline("date", 10)
    /\ pin.max_urgency_days = 30
    /\ pout.v = 67

\* The ranks of the non-archived records of data follow the composite score:
\* a strictly greater score has the smaller rank, equal scores are ranked in
\* store order.
RankedByScore(data, mud) ==
    \A a, b \in Active(data) :
        /\ TotalScore(data[a], mud) > TotalScore(data[b], mud) =>
               data[a].rank < data[b].rank
        /\ (TotalScore(data[a], mud) = TotalScore(data[b], mud) /\ a < b) =>
               data[a].rank < data[b].rank

\* C23: after recalculate_all_priorities the ranks follow the composite score
\* in descending order: of two non-archived RFPs the one with the strictly
\* greater score has the smaller rank, and RFPs with equal scores are ranked
\* in their store order.
C23_RanksFollowScore ==
    [][(\E pr \in Threads : rank_load(pr)) =>
          RankedByScore(recalculate_all_priorities(db, settings), settings)]_vars

UniqueIds(data) ==
    \A i, j \in 1..Len(data) : i # j => data[i].id # data[j].id

\* C28: every record created by process_rfp has an rfp_unique_id different
\* from the id of every other record in the store, for any number and timing
\* of uploads.
C28_UniqueIds == UniqueIds(db)

----------------------------------------------------------------------------
\* Properties of the pipeline stages

\* C24: in every reachable state of the store, an RFP whose stage tracker
\* marks pricing_agent "Completed" also has tech_agent marked "Completed" or
\* "Completed (Manual)".
C24_PricingCompletedAfterTech ==
    \A i \in 1..Len(db) :
        db[i].pricing_stage = "Completed" => Completed(db[i].tech_stage)

\* The stored record after a technical re-run of an RFP whose pricing stage
\* was "Completed": the earlier pricing output is there, its stage is open.
Reopened(record) ==
    /\ record.status = "Technical Analysis Done"
    /\ record.tech_stage = "Completed"
    /\ record.pricing_out = "Ok"
    /\ record.pricing_stage = "Pending"

\* The step is the write-back of a pricing run of thread pr that completed.
PricingCompletedStep(pr) ==
    pr.tmp # "Err" /\ (pipeline_price_save(pr) \/ run_pricing_save(pr))

\* C25: a technical re-run of an RFP whose pricing stage is "Completed" sets
\* that stage back to "Pending", and the stage stays "Pending" until a later
\* pricing run for that RFP completes.
C25_RerunReopensPricing ==
    [][/\ \A pr \in Threads :
             (pr.tmp # "Err" /\ run_tech_save(pr) /\ HasId(db', pr.rfp)) =>
                 get_rfp_record(db', pr.rfp).pricing_stage # "Completed"
       /\ \A r \in RfpIds :
             (/\ HasId(db, r) /\ Reopened(get_rfp_record(db, r))
              /\ HasId(db', r)
              /\ get_rfp_record(db', r).pricing_stage = "Completed") =>
                 \E pr \in Threads : pr.rfp = r /\ PricingCompletedStep(pr)]_vars

\* C26: when the sales stage of a pipeline fails, the record's status becomes
\* "Error" and the pipeline ends there: the thread returns, and the
\* tech_agent_output and pricing_agent_output of that RFP are as at creation.
C26_SalesFailureEndsPipeline ==
    [][\A pr \in Threads :
          (pr.tmp = "Err" /\ pipeline_sales_save(pr)) =>
              /\ procs' = procs (-) SetToBag({pr})
              /\ HasId(db', pr.rfp) =>
                    /\ get_rfp_record(db', pr.rfp).status = "Error"
                    /\ get_rfp_record(db', pr.rfp).tech_out = "Empty"
                    /\ get_rfp_record(db', pr.rfp).pricing_out = "Empty"]_vars

\* C27: in manual mode the pipeline stops after the sales stage with the
\* status "Waiting for Manual Action"; its last write leaves the technical and
\* pricing outputs, their stage markers and the rank of every RFP unchanged.
C27_ManualModeFrame ==
    [][\A pr \in Threads :
          pipeline_manual_save(pr) =>
              /\ procs' = procs (-) SetToBag({pr})
              /\ HasId(db', pr.rfp) =>
                    get_rfp_record(db', pr.rfp).status = "Waiting for Manual Action"
              /\ Len(db') = Len(db)
              /\ \A i \in 1..Len(db) :
                    /\ db'[i].id = db[i].id
                    /\ db'[i].tech_out = db[i].tech_out
                    /\ db'[i].pricing_out = db[i].pricing_out
                    /\ db'[i].tech_stage = db[i].tech_stage
                    /\ db'[i].pricing_stage = db[i].pricing_stage
                    /\ db'[i].rank = db[i].rank]_vars

\* C29: once the background pipelines have finished (no thread is in
\* flight), no stored record is left in the status "Processing".
C29_NoRecordLeftProcessing ==
    Quiescent => \A i \in 1..Len(db) : db[i].status # "Processing"

----------------------------------------------------------------------------
\* Properties of the extraction collaborator

\* The call under way has gone through all its keys and models without a
\* reply.
AllKeysFailed ==
    pin.fn = "try_generate_with_models" /\ pout.pc = "raised"

\* C30: try_generate_with_models raises "All models/keys failed" only after
\* at least one call under each of the K configured API keys, and
\* current_key_index stays within 0..K-1 throughout.
C30_RaisesAfterEveryKey ==
    pin.fn = "try_generate_with_models" =>
        /\ pin.api_keys > 0 => pout.current_key_index \in 0..(pin.api_keys - 1)
        /\ pout.rotation <= pin.api_keys + 1
        /\ pout.model \in 1..Len(model_candidates)
        /\ AllKeysFailed => \A k \in 0..(pin.api_keys - 1) : k \in pout.tried

====
